---- MODULE Spec2Model ----
(***************************************************************************)
(* State-machine model of the web-rwkv core:                               *)
(*   - Model::run, the token chunking protocol (src/src/model/mod.rs)      *)
(*   - JobRuntime::run, the pipelined job worker (src/src/runtime/mod.rs)  *)
(***************************************************************************)
EXTENDS Integers, Sequences, FiniteSets, TLC

\* ------------------------------------------------------------------ bounds
MaxBatch == 2      \* largest state.max_batch() and largest tokens.len()
MaxLen == 3        \* longest per-batch token sequence handed to run
MaxChunk == 3      \* largest token_chunk_size

\* ------------------------------------------------------------- Option<T>
None == <<>>
Some(x) == <<x>>

\* ---------------------------------------------------------------- helpers
MinTakesFirst(a, b) == a
Min(a, b) == IF a < b THEN a ELSE b

RECURSIVE SumLen(_)
\* tokens.iter().map(Vec::len).sum()
SumLen(toks) ==
    IF toks = <<>> THEN 0 ELSE Len(Head(toks)) + SumLen(Tail(toks))

\* ================================================================ Model::run
VARIABLES
    tokens,            \* the caller's &mut Vec<Vec<u16>>
    max_batch,         \* state.max_batch()
    token_chunk_size,  \* self.token_chunk_size()
    prompt,            \* value of `tokens` when the caller created it
    pre,               \* value of `tokens` at entry of the latest run call
    inputs,            \* `inputs` argument of the latest run_internal call
    last,              \* `last` argument of the latest run_internal call
    result,            \* return value of the latest run call
    called,            \* TRUE iff the latest run call invoked run_internal
    fed,               \* per batch, every input handed to run_internal so far
    ncall,             \* number of run calls that passed the input checks
    nok,               \* number of run calls that returned Ok
    nrun,              \* number of run calls made (capped by the driver)
    run_pc             \* "back" while the future of the latest run call is
                       \* suspended at output.back_async().await, else "idle"

runVars == <<tokens, max_batch, token_chunk_size, prompt, pre, inputs, last,
             result, called, fed, ncall, nok, nrun, run_pc>>

\* state of the job runtime (JobRuntime::run and its callers)
VARIABLES
    handles,    \* live clones of the mpsc sender (the JobRuntime handle)
    chan,       \* submissions queued in the mpsc channel, oldest first
    nsub,       \* submissions sent so far; submission ids are 1..nsub
    ninfo,      \* per submission: length of the input's info iterator
    rx,         \* per submission: the caller's one-shot receiver
    reply,      \* per submission: what the one-shot channel carried
    recvd,      \* submissions the worker received, in order
    pc,         \* the worker's position in JobRuntime::run
    cur,        \* submission of the current loop iteration (0: none)
    curjob,     \* `job` of the current iteration (0: none)
    next,       \* `next`: Option of the second info of the current input
    predict,    \* `predict`: Option of the predicted job
    checked,    \* outcome of predict.take().and_then(check) this iteration
    jobs,       \* every job built so far: info, stage, submission, chunk
    task,       \* per submission: the spawned back() task
    exit        \* return value of JobRuntime::run

jobVars == <<handles, chan, nsub, ninfo, rx, reply, recvd, pc, cur, curjob,
             next, predict, checked, jobs, task, exit>>

\* state of a StateBuilder (src/src/model/mod.rs)
VARIABLES
    sb_num_layer,    \* info.num_layer of the ModelInfo given to new
    sb_max_batch,    \* StateBuilder.max_batch
    sb_chunk_size    \* StateBuilder.chunk_size

builderVars == <<sb_num_layer, sb_max_batch, sb_chunk_size>>

\* state of a ContextBuilder under auto_limits (src/src/runtime/model.rs)
VARIABLES
    model_info,   \* the ModelInfo handed to auto_limits
    limits    \* ContextBuilder.limits, None before auto_limits ran

limitVars == <<model_info, limits>>

\* one call of a kernel entry point (src/src/tensor/ops.rs)
VARIABLES
    k_call,   \* Option of the call made: entry point and argument shapes
    k_ret     \* Option of what the call returned and did

kernelVars == <<k_call, k_ret>>

\* a session of upload, blit, copy_tensor, submit and readback
VARIABLES
    g_pc,       \* position in the session
    g_shape,    \* shape of the tensor `output`
    g_data,     \* the host vector uploaded into `output`
    g_mshape,   \* shape of the readback tensor `map`
    g_output,   \* bytes of the buffer of `output`
    g_map,      \* bytes of the buffer of `map`
    g_ops,      \* the blit ops pushed so far, with their views
    g_encoder,  \* commands recorded in the encoder, in order
    g_host,     \* Option of the vector read back from `map`
    g_result    \* Option of the session's Result

gpuVars == <<g_pc, g_shape, g_data, g_mshape, g_output, g_map, g_ops,
             g_encoder, g_host, g_result>>

\* what the actions of one part leave alone: the variables of the others
notRunVars == <<jobVars, builderVars, limitVars, kernelVars, gpuVars>>
notJobVars == <<runVars, builderVars, limitVars, kernelVars, gpuVars>>
notBuilderVars == <<runVars, jobVars, limitVars, kernelVars, gpuVars>>
notLimitVars == <<runVars, jobVars, builderVars, kernelVars, gpuVars>>
notKernelVars == <<runVars, jobVars, builderVars, limitVars, gpuVars>>
notGpuVars == <<runVars, jobVars, builderVars, limitVars, kernelVars>>

\* tokens.len() != max_batch, negated
BatchSizeBroken(len, maxb) == len <= maxb
BatchSizeOk(len, maxb) == len = maxb

\* num_token == 0
EmptyCheckBroken(num_token) == FALSE
IsEmptyInput(num_token) == num_token = 0

\* let mid = batch.len().min(num_token);
MidIgnoresBudget(batch, num_token) == Len(batch)
Mid(batch, num_token) == Min(Len(batch), num_token)

\* batch.split_at(mid): head and tail
SplitHeadSkipsFirst(batch, mid) == SubSeq(batch, 2, mid)
SplitHead(batch, mid) == SubSeq(batch, 1, mid)
SplitTailDropsOne(batch, mid) == SubSeq(batch, mid + 2, Len(batch))
SplitTail(batch, mid) == SubSeq(batch, mid + 1, Len(batch))

\* last = (!tail.is_empty()).then_some(index);
LastAlways(prev, tail, index) == Some(index)
LastOf(prev, tail, index) == IF tail # <<>> THEN Some(index) ELSE None

RECURSIVE ChunkLoopNoBreak(_, _, _, _, _)
\* the loop without its `break`
ChunkLoopNoBreak(index, toks, inps, num_token, lst) ==
    IF index >= Min(Len(toks), Len(inps))
    THEN [tokens |-> toks, inputs |-> inps, last |-> lst]
    ELSE LET batch == toks[index + 1]
             mid == Mid(batch, num_token)
             rest == num_token - mid
             head == SplitHead(batch, mid)
             tail == SplitTail(batch, mid)
             lst2 == LastOf(lst, tail, index)
             inps2 == [inps EXCEPT ![index + 1] = head]
             toks2 == [toks EXCEPT ![index + 1] = tail]
         IN ChunkLoopNoBreak(index + 1, toks2, inps2, rest, lst2)

RECURSIVE ChunkLoop(_, _, _, _, _)
\* the for loop over tokens.iter_mut().zip(inputs.iter_mut()).enumerate();
\* index is the 0-based batch index
ChunkLoop(index, toks, inps, num_token, lst) ==
    IF index >= Min(Len(toks), Len(inps))
    THEN [tokens |-> toks, inputs |-> inps, last |-> lst]
    ELSE LET batch == toks[index + 1]
             mid == Mid(batch, num_token)
             rest == num_token - mid
             head == SplitHead(batch, mid)
             tail == SplitTail(batch, mid)
             lst2 == LastOf(lst, tail, index)
             inps2 == [inps EXCEPT ![index + 1] = head]
             toks2 == [toks EXCEPT ![index + 1] = tail]
         IN IF rest = 0
            THEN [tokens |-> toks2, inputs |-> inps2, last |-> lst2]
            ELSE ChunkLoop(index + 1, toks2, inps2, rest, lst2)

\* run with `tokens` put back when run_internal fails
runRestoresOnError(toks, maxb, chunk, internalOk) ==
    LET num_token == SumLen(toks)
    IN IF ~BatchSizeOk(Len(toks), maxb)
       THEN [result |-> <<"Err", "BatchSize", Len(toks), maxb>>,
             awaiting |-> FALSE,
             tokens |-> toks, called |-> FALSE, inputs |-> <<>>, last |-> None]
       ELSE IF IsEmptyInput(num_token)
       THEN [result |-> <<"Err", "EmptyInput">>,
             awaiting |-> FALSE,
             tokens |-> toks, called |-> FALSE, inputs |-> <<>>, last |-> None]
       ELSE LET budget == Min(num_token, chunk)
                empty == [b \in 1..maxb |-> <<>>]
                out == ChunkLoop(0, toks, empty, budget, None)
            IN [result |-> IF internalOk THEN <<"None">>
                           ELSE <<"Err", "Internal">>,
                awaiting |-> internalOk,
                tokens |-> IF internalOk THEN out.tokens ELSE toks,
                called |-> TRUE,
                inputs |-> out.inputs, last |-> out.last]

\* Model::run up to its first suspension: the input checks, the chunk loop
\* and the call of run_internal.  internalOk is the outcome of run_internal
\* (a required trait method).  With an error the call returns at once; with
\* Ok nothing is returned yet and the future awaits output.back_async().
run(toks, maxb, chunk, internalOk) ==
    LET num_token == SumLen(toks)
    IN IF ~BatchSizeOk(Len(toks), maxb)
       THEN [result |-> <<"Err", "BatchSize", Len(toks), maxb>>,
             awaiting |-> FALSE,
             tokens |-> toks, called |-> FALSE, inputs |-> <<>>, last |-> None]
       ELSE IF IsEmptyInput(num_token)
       THEN [result |-> <<"Err", "EmptyInput">>,
             awaiting |-> FALSE,
             tokens |-> toks, called |-> FALSE, inputs |-> <<>>, last |-> None]
       ELSE LET budget == Min(num_token, chunk)
                empty == [b \in 1..maxb |-> <<>>]
                out == ChunkLoop(0, toks, empty, budget, None)
            IN [result |-> IF internalOk THEN <<"None">>
                           ELSE <<"Err", "Internal">>,
                awaiting |-> internalOk,
                tokens |-> out.tokens, called |-> TRUE,
                inputs |-> out.inputs, last |-> out.last]

\* the u16 at position p (1-based) of batch b (1-based) of a prompt; run
\* never inspects token values, so every token gets a value of its own and
\* a lost, duplicated or misplaced token shows
Token(b, p) == (b - 1) * MaxLen + p

\* the Vec<u16> of batch b holding n tokens
TokenSeq(b, n) == [p \in 1..n |-> Token(b, p)]

\* all Vec<Vec<u16>> of exactly n batches, each of 0..MaxLen tokens
TokenVecs(n) ==
    {[b \in 1..n |-> TokenSeq(b, lens[b])] : lens \in [1..n -> 0..MaxLen]}

RunInit ==
    /\ max_batch \in 1..MaxBatch
    /\ token_chunk_size \in 1..MaxChunk
    /\ \E n \in 0..MaxBatch : tokens \in TokenVecs(n)
    /\ prompt = tokens
    /\ pre = tokens
    /\ inputs = <<>>
    /\ last = None
    /\ result = <<"None">>
    /\ called = FALSE
    /\ fed = [b \in 1..max_batch |-> <<>>]
    /\ ncall = 0
    /\ nok = 0
    /\ nrun = 0
    /\ run_pc = "idle"

\* the bound on the number of run calls the driver makes: enough to drain
\* the longest prompt one token at a time and to see the failing call after
MaxRun == MaxBatch * MaxLen + 1

\* one call `model.run(&mut tokens, &state)`, polled up to the await of
\* back_async or to an early return
Run ==
    /\ run_pc = "idle"
    /\ nrun < MaxRun
    /\ \E internalOk \in BOOLEAN :
         LET r == run(tokens, max_batch, token_chunk_size, internalOk)
         IN /\ pre' = tokens
            /\ tokens' = r.tokens
            /\ inputs' = r.inputs
            /\ last' = r.last
            /\ result' = r.result
            /\ called' = r.called
            /\ fed' = IF r.called
                      THEN [b \in 1..max_batch |-> fed[b] \o r.inputs[b]]
                      ELSE fed
            /\ ncall' = IF r.called THEN ncall + 1 ELSE ncall
            /\ run_pc' = IF r.awaiting THEN "back" ELSE "idle"
    /\ nrun' = nrun + 1
    /\ UNCHANGED <<max_batch, token_chunk_size, prompt, nok>>
    /\ UNCHANGED notRunVars

\* back_async resolves and run builds its value from `redirect`.  redirectOk
\* is whether every index run_internal put into `redirect` is a batch of the
\* output: if one is not, `.expect("this never happens")` panics.
RunBack ==
    /\ run_pc = "back"
    /\ \E redirectOk \in BOOLEAN :
         /\ result' = IF redirectOk THEN <<"Ok">> ELSE <<"Panic">>
         /\ nok' = IF redirectOk THEN nok + 1 ELSE nok
    /\ run_pc' = "idle"
    /\ UNCHANGED <<tokens, max_batch, token_chunk_size, prompt, pre, inputs,
                   last, called, fed, ncall, nrun>>
    /\ UNCHANGED notRunVars

\* the caller drops the future while it is suspended at the await: the call
\* returns nothing, and `tokens` stays as the chunk loop left it
RunDrop ==
    /\ run_pc = "back"
    /\ run_pc' = "idle"
    /\ UNCHANGED <<tokens, max_batch, token_chunk_size, prompt, pre, inputs,
                   last, result, called, fed, ncall, nok, nrun>>
    /\ UNCHANGED notRunVars


\* ============================================================== JobRuntime
\* bounds of the job runtime model
MaxSub == 3        \* submissions the producers send in one behaviour
MaxInfo == 2       \* longest info iterator of a submitted input
MaxHandle == 2     \* most live clones of the JobRuntime handle


SubIds == 1..MaxSub

\* the k-th element of the info iterator of submission id
Info(id, k) == <<id, k>>

\* a JobInput: the submission it belongs to and the steps applied to it
NewInput(id) == [id |-> id, steps |-> 0]
\* JobInput::step
stepTwice(input) == [input EXCEPT !.steps = @ + 2]
step(input) == [input EXCEPT !.steps = @ + 1]
\* JobInput::chunk
chunk(input) == <<input.id, input.steps>>

\* tokio::sync::mpsc::channel(1)
ChannelCapacity == 1

\* a send completes only while the channel holds fewer than its capacity
HasCapacityUnbounded(ch) == TRUE
HasCapacity(ch) == Len(ch) < ChannelCapacity

\* receiver.recv() yields None: no sender is left and nothing is queued
ChannelClosedIgnoresQueue(h, ch) == h = 0
ChannelClosed(h, ch) == h = 0 /\ ch = <<>>

\* let next = iter.next(), the second element of the info iterator of a
\* submission whose iterator yields n elements
NextInfoPeeksFirst(id, n) == IF n >= 2 THEN Some(Info(id, 1)) ELSE None
NextInfo(id, n) == IF n >= 2 THEN Some(Info(id, 2)) ELSE None

\* fn check(job, input, info): job.check(input, info).then_some(job), where
\* ok is what Job::check returned
checkAlways(job, ok) == Some(job)
check(job, ok) == IF ok THEN Some(job) ELSE None

\* the statement the worker reaches with a reused predicted job: .load(&chunk)
PcAfterReuseSkipsLoad == "submit"
PcAfterReuse == "load"

\* Job::back's output for job j
Output(j) == <<"out", j>>

\* sender.send((input, output)): delivered unless the receiver is gone
SendReply(rxState, input, output) ==
    IF rxState = "alive" THEN <<"ok", input, output>> ELSE <<"discarded">>

\* result of the back() task: `job.back().await?` then `let _ = send`
BackResultSendChecked(backOk, sendOk) == IF backOk /\ sendOk THEN "ok" ELSE "err"
BackResult(backOk, sendOk) == IF backOk THEN "ok" ELSE "err"

\* what the one-shot channel carries when back() finishes
BackReplyDropsSender(backOk, rxState, input, output) == <<"closed">>
BackReplyAlways(backOk, rxState, input, output) == <<"ok", step(input), output>>
BackReply(backOk, rxState, input, output) ==
    IF backOk THEN SendReply(rxState, step(input), output) ELSE <<"closed">>

\* handle.await: the worker resumes once the spawned task has finished
JoinedNoWait(t) == TRUE
Joined(t) == t \in {"ok", "err"}

\* builder.build(info): a new job in stage "built"
NewJob(info) == [info |-> info, stage |-> "built", sub |-> 0, chunk |-> <<>>]

\* the job of the one-step lookahead: built, never submitted
PredictedJobSubmitted(info) == [NewJob(info) EXCEPT !.stage = "submitted"]
PredictedJob(info) == NewJob(info)

JobInit ==
    /\ handles = 1
    /\ chan = <<>>
    /\ nsub = 0
    /\ ninfo = [i \in SubIds |-> 0]
    /\ rx = [i \in SubIds |-> "unsent"]
    /\ reply = [i \in SubIds |-> <<"none">>]
    /\ recvd = <<>>
    /\ pc = "recv"
    /\ cur = 0
    /\ curjob = 0
    /\ next = None
    /\ predict = None
    /\ checked = "none"
    /\ jobs = <<>>
    /\ task = [i \in SubIds |-> "none"]
    /\ exit = <<"running">>

\* ---- producers and callers
\* JobRuntime::clone
CloneHandle ==
    /\ handles >= 1
    /\ handles < MaxHandle
    /\ handles' = handles + 1
    /\ UNCHANGED <<chan, nsub, ninfo, rx, reply, recvd, pc, cur, curjob, next,
                   predict, checked, jobs, task, exit>>
    /\ UNCHANGED notJobVars

\* drop of one clone of the handle
DropHandle ==
    /\ handles >= 1
    /\ handles' = handles - 1
    /\ UNCHANGED <<chan, nsub, ninfo, rx, reply, recvd, pc, cur, curjob, next,
                   predict, checked, jobs, task, exit>>
    /\ UNCHANGED notJobVars

\* runtime.send(Submission { input, sender }).await completes
Send ==
    /\ handles >= 1
    /\ nsub < MaxSub
    /\ pc # "done"
    /\ HasCapacity(chan)
    /\ \E n \in 0..MaxInfo :
         /\ nsub' = nsub + 1
         /\ ninfo' = [ninfo EXCEPT ![nsub + 1] = n]
         /\ rx' = [rx EXCEPT ![nsub + 1] = "alive"]
         /\ chan' = Append(chan, nsub + 1)
    /\ UNCHANGED <<handles, reply, recvd, pc, cur, curjob, next, predict,
                   checked, jobs, task, exit>>
    /\ UNCHANGED notJobVars

\* the caller drops the one-shot receiver of a submission
DropReceiver ==
    /\ \E id \in 1..nsub :
         /\ rx[id] = "alive"
         /\ rx' = [rx EXCEPT ![id] = "dropped"]
    /\ UNCHANGED <<handles, chan, nsub, ninfo, reply, recvd, pc, cur, curjob,
                   next, predict, checked, jobs, task, exit>>
    /\ UNCHANGED notJobVars

\* ---- the worker, JobRuntime::run
\* the error of a failed call swallowed: the loop goes on to the next receive
ReturnKeepsLooping(value, replies, js) ==
    /\ pc' = "recv"
    /\ exit' = value
    /\ chan' = chan
    /\ reply' = replies
    /\ jobs' = js
    /\ predict' = predict

\* the worker returns: `receiver` and `predict` are dropped, and with the
\* receiver every queued submission and its reply sender
Return(value, replies, js) ==
    /\ pc' = "done"
    /\ exit' = value
    /\ chan' = <<>>
    /\ reply' = [i \in SubIds |->
                   IF \E k \in 1..Len(chan) : chan[k] = i
                   THEN <<"closed">> ELSE replies[i]]
    /\ jobs' = IF predict # None
               THEN [js EXCEPT ![predict[1]].stage = "dropped"]
               ELSE js
    /\ predict' = None

\* receiver.recv() yields None: every handle is gone and nothing is queued
RecvClosed ==
    /\ pc = "recv"
    /\ ChannelClosed(handles, chan)
    /\ Return(<<"Ok">>, reply, jobs)
    /\ UNCHANGED <<handles, nsub, ninfo, rx, recvd, cur, curjob, next, checked, task>>
    /\ UNCHANGED notJobVars

\* the skip placed after predict.take(): the predicted job is lost
RecvSkipTakesPredict ==
    /\ pc = "recv"
    /\ chan # <<>>
    /\ ninfo[Head(chan)] = 0
    /\ chan' = Tail(chan)
    /\ recvd' = Append(recvd, Head(chan))
    /\ reply' = [reply EXCEPT ![Head(chan)] = <<"closed">>]
    /\ predict' = None
    /\ jobs' = IF predict # None
               THEN [jobs EXCEPT ![predict[1]].stage = "dropped"]
               ELSE jobs
    /\ UNCHANGED <<handles, nsub, ninfo, rx, pc, cur, curjob, next,
                   checked, task, exit>>
    /\ UNCHANGED notJobVars

\* receiver.recv() yields a submission whose info iterator is empty: continue
RecvSkip ==
    /\ pc = "recv"
    /\ chan # <<>>
    /\ ninfo[Head(chan)] = 0
    /\ chan' = Tail(chan)
    /\ recvd' = Append(recvd, Head(chan))
    /\ reply' = [reply EXCEPT ![Head(chan)] = <<"closed">>]
    /\ UNCHANGED <<handles, nsub, ninfo, rx, pc, cur, curjob, next, predict,
                   checked, jobs, task, exit>>
    /\ UNCHANGED notJobVars

\* receiver.recv() yields a submission; info and next are peeked, the chunk is
\* taken and the predicted job, if any, is checked against them
Recv ==
    /\ pc = "recv"
    /\ chan # <<>>
    /\ ninfo[Head(chan)] >= 1
    /\ LET id == Head(chan)
       IN /\ chan' = Tail(chan)
          /\ recvd' = Append(recvd, id)
          /\ cur' = id
          /\ next' = NextInfo(id, ninfo[id])
          /\ predict' = None
          /\ IF predict = None
             THEN /\ checked' = "none"
                  /\ curjob' = 0
                  /\ pc' = "build"
                  /\ jobs' = jobs
             ELSE \E ok \in BOOLEAN :
                    LET job == check(predict[1], ok)
                    IN /\ checked' = IF ok THEN "pass" ELSE "fail"
                       /\ IF job # None
                          THEN /\ curjob' = job[1]
                               /\ pc' = PcAfterReuse
                               /\ jobs' = jobs
                          ELSE /\ curjob' = 0
                               /\ pc' = "build"
                               /\ jobs' = [jobs EXCEPT ![predict[1]].stage = "dropped"]
    /\ UNCHANGED <<handles, nsub, ninfo, rx, reply, task, exit>>
    /\ UNCHANGED notJobVars

\* builder.build(info).await? for the current job
Build ==
    /\ pc = "build"
    /\ \E ok \in BOOLEAN :
         IF ok
         THEN /\ jobs' = Append(jobs, NewJob(Info(cur, 1)))
              /\ curjob' = Len(jobs) + 1
              /\ pc' = "load"
              /\ UNCHANGED <<chan, reply, predict, exit>>
         ELSE /\ Return(<<"Err", "build">>, [reply EXCEPT ![cur] = <<"closed">>], jobs)
              /\ curjob' = curjob
    /\ UNCHANGED <<handles, nsub, ninfo, rx, recvd, cur, next, checked, task>>
    /\ UNCHANGED notJobVars

\* .load(&chunk)?
Load ==
    /\ pc = "load"
    /\ \E ok \in BOOLEAN :
         IF ok
         THEN /\ jobs' = [jobs EXCEPT ![curjob].stage = "loaded",
                                      ![curjob].sub = cur,
                                      ![curjob].chunk = chunk(NewInput(cur))]
              /\ pc' = "submit"
              /\ UNCHANGED <<chan, reply, predict, exit>>
         ELSE /\ Return(<<"Err", "load">>, [reply EXCEPT ![cur] = <<"closed">>],
                     [jobs EXCEPT ![curjob].stage = "dropped"])
    /\ UNCHANGED <<handles, nsub, ninfo, rx, recvd, cur, curjob, next, checked, task>>
    /\ UNCHANGED notJobVars

\* job.submit(); let handle = tokio::spawn(back(job, input, sender));
Submit ==
    /\ pc = "submit"
    /\ jobs' = [jobs EXCEPT ![curjob].stage = "submitted"]
    /\ task' = [task EXCEPT ![cur] = "running"]
    /\ pc' = "predict"
    /\ UNCHANGED <<handles, chan, nsub, ninfo, rx, reply, recvd, cur, curjob,
                   next, predict, checked, exit>>
    /\ UNCHANGED notJobVars

\* predict = match next { Some(info) => Some(builder.build(info).await?), .. }
Predict ==
    /\ pc = "predict"
    /\ IF next = None
       THEN /\ pc' = "await"
            /\ predict' = None
            /\ UNCHANGED <<chan, reply, jobs, exit>>
       ELSE \E ok \in BOOLEAN :
              IF ok
              THEN /\ jobs' = Append(jobs, PredictedJob(next[1]))
                   /\ predict' = Some(Len(jobs) + 1)
                   /\ pc' = "await"
                   /\ UNCHANGED <<chan, reply, exit>>
              ELSE Return(<<"Err", "build">>, reply, jobs)
    /\ UNCHANGED <<handles, nsub, ninfo, rx, recvd, cur, curjob, next, checked, task>>
    /\ UNCHANGED notJobVars

\* handle.await??
Await ==
    /\ pc = "await"
    /\ Joined(task[cur])
    /\ IF task[cur] = "err"
       THEN /\ Return(<<"Err", "back">>, reply, jobs)
            /\ UNCHANGED <<cur, curjob, next>>
       ELSE /\ pc' = "recv"
            /\ cur' = 0
            /\ curjob' = 0
            /\ next' = None
            /\ UNCHANGED <<chan, reply, predict, jobs, exit>>
    /\ UNCHANGED <<handles, nsub, ninfo, rx, recvd, checked, task>>
    /\ UNCHANGED notJobVars

\* ---- the spawned task back(job, input, sender)
JobOf(id) == CHOOSE j \in 1..Len(jobs) :
                 jobs[j].sub = id /\ jobs[j].stage = "submitted"

Back ==
    /\ \E id \in 1..nsub :
         /\ task[id] = "running"
         /\ \E backOk \in BOOLEAN :
              LET j == JobOf(id)
              IN /\ jobs' = [jobs EXCEPT ![j].stage =
                                IF backOk THEN "backed" ELSE "failed"]
                 /\ reply' = [reply EXCEPT ![id] =
                                BackReply(backOk, rx[id], NewInput(id), Output(j))]
                 /\ task' = [task EXCEPT ![id] =
                                BackResult(backOk, rx[id] = "alive")]
    /\ UNCHANGED <<handles, chan, nsub, ninfo, rx, recvd, pc, cur, curjob, next,
                   predict, checked, exit>>
    /\ UNCHANGED notJobVars

NextJob ==
    \/ CloneHandle
    \/ DropHandle
    \/ Send
    \/ DropReceiver
    \/ RecvClosed
    \/ RecvSkip
    \/ Recv
    \/ Build
    \/ Load
    \/ Submit
    \/ Predict
    \/ Await
    \/ Back

\* ============================================================== StateBuilder
MaxLayer == 3      \* largest info.num_layer
MaxArg == 6        \* largest argument of with_max_batch / with_chunk_size

\* StateBuilder::new: max_batch: 1, chunk_size: info.num_layer
BuilderInit ==
    /\ sb_num_layer \in 1..MaxLayer
    /\ sb_max_batch = 1
    /\ sb_chunk_size = sb_num_layer

\* StateBuilder::with_max_batch: Self { max_batch: value, ..self }
WithMaxBatch ==
    /\ \E value \in 0..MaxArg : sb_max_batch' = value
    /\ UNCHANGED <<sb_num_layer, sb_chunk_size>>
    /\ UNCHANGED notBuilderVars

\* StateBuilder::with_chunk_size: Self { chunk_size: value, ..self }
WithChunkSize ==
    /\ \E value \in 0..MaxArg : sb_chunk_size' = value
    /\ UNCHANGED <<sb_num_layer, sb_max_batch>>
    /\ UNCHANGED notBuilderVars

NextBuilder ==
    \/ WithMaxBatch
    \/ WithChunkSize

\* ============================================================== auto_limits
\* Sizes of this part are counted in MiB (2^20 bytes): the byte counts reach
\* 2^32 and beyond.  Every ModelInfo drawn below has num_emb and
\* num_hidden * 2 and num_vocab * 2 divisible by 1024, so each product is a
\* whole number of MiB and the arithmetic in MiB is exact.
MaxEmbLog == 5      \* num_emb ranges over 1024 * 2^0 .. 1024 * 2^MaxEmbLog
MaxHiddenLog == 7   \* num_hidden ranges over 1024 * 2^0 .. 1024 * 2^MaxHiddenLog
MaxVocabLog == 6    \* num_vocab ranges over 1024 * 2^0 .. 1024 * 2^MaxVocabLog

RECURSIVE Pow2(_)
Pow2(k) == IF k = 0 THEN 1 ELSE 2 * Pow2(k - 1)

\* 1024: num_emb and the doubled num_hidden, num_vocab are counted in it
KiB == Pow2(10)
\* f16::size()
F16Size == 2
\* ModelInfo::BUFFER_SIZE = 256 << 20, in MiB
BUFFER_SIZE == 256
\* ModelInfo::STORAGE_BUFFER_BINDING_SIZE = 128 << 20, in MiB
STORAGE_BUFFER_BINDING_SIZE == 128
\* 2^32 bytes in MiB: the modulus of a cast to u32
U32Range == Pow2(32 - 20)

\* usize::max
Max2(a, b) == IF a >= b THEN a ELSE b

\* num_emb * num_hidden * f16::size(), in MiB
max_non_head_buffer_size(i) ==
    (i.num_emb \div KiB) * ((i.num_hidden * F16Size) \div KiB)

\* num_emb * num_vocab * f16::size(), in MiB
head_buffer_size(i) ==
    (i.num_emb \div KiB) * ((i.num_vocab * F16Size) \div KiB)

\* `as u64` of a usize: the value itself
AsU64(x) == x

\* `as u32` of a usize keeps the low 32 bits
AsU32(x) == x % U32Range

\* ContextBuilder::auto_limits
auto_limits(i) ==
    [ max_buffer_size |->
          AsU64(Max2(Max2(BUFFER_SIZE, max_non_head_buffer_size(i)),
                     head_buffer_size(i))),
      max_storage_buffer_binding_size |->
          AsU32(Max2(Max2(STORAGE_BUFFER_BINDING_SIZE,
                          max_non_head_buffer_size(i)),
                     head_buffer_size(i))) ]

ModelInfos ==
    { [ num_emb |-> KiB * Pow2(e),
        num_hidden |-> KiB * Pow2(h),
        num_vocab |-> KiB * Pow2(v) ] :
      e \in 0..MaxEmbLog, h \in 0..MaxHiddenLog, v \in 0..MaxVocabLog }

LimitsInit ==
    /\ model_info \in ModelInfos
    /\ limits = None

\* ContextBuilder::new(adapter).auto_limits(&info)
AutoLimits ==
    /\ limits = None
    /\ limits' = Some(auto_limits(model_info))
    /\ UNCHANGED model_info
    /\ UNCHANGED notLimitVars

NextLimits == AutoLimits

\* ======================================================= kernel entry points
\* A Shape is the triple <<shape[0], shape[1], shape[2]>> = <<C, T, B>>; the
\* Rust index k is the TLA+ index k + 1.
Chans == {1, 4, 8}
Toks == {1, 2, 4}
Bats == {1, 2}
\* shapes handed to the entry points with up to four tensor arguments
Shapes == { <<c, t, b>> : c \in Chans, t \in Toks, b \in Bats }
\* shapes handed as mask, per-channel vectors and matrices to the entry
\* points with more tensor arguments
VecShapes == { <<1, 1, 1>>, <<4, 1, 1>>, <<4, 4, 1>> }
\* shapes handed as inputs, outputs and state views to these entry points
SmallShapes ==
    { <<1, 1, 1>>, <<4, 1, 1>>, <<4, 4, 1>>, <<4, 1, 2>>, <<4, 4, 2>> }
\* shapes handed to quantize_mat_int8: matrices with R < C, R = C and R > C
QuantShapes ==
    { <<1, 1, 1>>, <<4, 1, 1>>, <<4, 4, 1>>, <<8, 1, 1>>, <<4, 8, 1>>,
      <<8, 4, 1>> }

\* TensorOp::BLOCK_SIZE
BLOCK_SIZE == 128

\* TensorOp::block_count
block_count(x) == (x + BLOCK_SIZE - 1) \div BLOCK_SIZE

\* T::size() of f32, the element type of the copied and blitted tensors
F32Size == 4

\* shape.len(): the number of elements of a tensor
ShapeLen(shape) == shape[1] * shape[2] * shape[3]

\* TensorGpu::size(): the byte size of the tensor's buffer
TensorSize(shape) == ShapeLen(shape) * F32Size

\* check_shape: Ok when the tensor's (or view's) shape is the expected one
check_shape(actual, expected) ==
    IF actual = expected
    THEN <<"Ok">>
    ELSE <<"Err", "Shape", actual, expected>>

\* the steps of an entry point, in the order of its statements
Check(actual, expected) == <<"check", actual, expected>>
CheckOr(actual, first, second) == <<"check_or", actual, first, second>>
Pipeline(name) == <<"pipeline", name>>
BindGroup(name) == <<"bind", name>>
CopyBuffer(size) == <<"copy", 0, 0, size>>

\* the TensorOp an entry point returns
TensorOp(name, dispatch) == [pipeline |-> name, dispatch |-> dispatch]

\* context.pipeline(name): Err when the context holds no such pipeline
pipeline(avail, name) ==
    IF name \in avail THEN <<"Ok">> ELSE <<"Err", "Pipeline", name>>

\* The `?` after a step: run the steps in order, return at the first Err.
\* trace lists what was done: checks passed, pipelines fetched, bind groups
\* created, commands recorded.
RECURSIVE Exec(_, _, _)
Exec(steps, avail, trace) ==
    IF steps = <<>>
    THEN [result |-> <<"Ok">>, trace |-> trace]
    ELSE LET s == Head(steps)
             r == CASE s[1] = "check" -> check_shape(s[2], s[3])
                    [] s[1] = "check_or" ->
                         \* a.or(b): a if a is Ok, else b
                         IF check_shape(s[2], s[3])[1] = "Ok"
                         THEN check_shape(s[2], s[3])
                         ELSE check_shape(s[2], s[4])
                    [] s[1] = "pipeline" -> pipeline(avail, s[2])
                    [] OTHER -> <<"Ok">>
         IN IF r[1] = "Ok"
            THEN Exec(Tail(steps), avail, Append(trace, s))
            ELSE [result |-> r, trace |-> trace]

\* CommandEncoder::copy_tensor
copy_tensorElementCount(source, destination) ==
    [ steps |-> << Check(source, destination),
                   CopyBuffer(ShapeLen(source)) >>,
      value |-> <<>> ]
copy_tensor(source, destination) ==
    [ steps |-> << Check(source, destination),
                   CopyBuffer(TensorSize(source)) >>,
      value |-> <<>> ]

\* TensorOp::softmax
softmax(x) ==
    LET shape == x
    IN [ steps |-> << Pipeline("softmax"), BindGroup("softmax") >>,
         value |-> << TensorOp("softmax", <<1, shape[2], shape[3]>>) >> ]

\* TensorOp::layer_norm
layer_norm(w, b, x) ==
    LET shape == x
    IN [ steps |-> << Check(w, <<shape[1], 1, 1>>),
                      Check(b, <<shape[1], 1, 1>>),
                      Pipeline("layer_norm"), BindGroup("layer_norm") >>,
         value |-> << TensorOp("layer_norm", <<1, shape[2], shape[3]>>) >> ]

\* TensorOp::matmul
matmulUncheckedMatrix(matrix, input, output) ==
    LET shape == output
    IN [ steps |-> << Check(input, <<matrix[1], shape[2], shape[3]>>),
                      Pipeline("matmul"), BindGroup("matmul") >>,
         value |-> << TensorOp("matmul",
                               <<matrix[2] \div 4, shape[2], shape[3]>>) >> ]
matmul(matrix, input, output) ==
    LET shape == output
    IN [ steps |-> << Check(matrix, <<input[1], shape[1], 1>>),
                      Check(input, <<matrix[1], shape[2], shape[3]>>),
                      Pipeline("matmul"), BindGroup("matmul") >>,
         value |-> << TensorOp("matmul",
                               <<matrix[2] \div 4, shape[2], shape[3]>>) >> ]

\* TensorOp::matmul_int8
matmul_int8(matrix, mx, rx_, my, ry, input, output) ==
    LET shape == output
    IN [ steps |-> << Check(matrix, <<input[1], shape[1], 1>>),
                      Check(input, <<matrix[1], shape[2], shape[3]>>),
                      Check(mx, <<matrix[1], 1, 1>>),
                      Check(rx_, <<matrix[1], 1, 1>>),
                      Check(my, <<matrix[2], 1, 1>>),
                      Check(ry, <<matrix[2], 1, 1>>),
                      Pipeline("matmul_int8"), BindGroup("matmul_int8") >>,
         value |-> << TensorOp("matmul_int8",
                               <<matrix[2] \div 4, shape[2], shape[3]>>) >> ]

\* TensorOp::add
add(input, output) ==
    LET shape == output
    IN [ steps |-> << Check(input, shape),
                      Pipeline("add"), BindGroup("add") >>,
         value |-> << TensorOp("add", <<block_count(shape[1] \div 4),
                                        shape[2], shape[3]>>) >> ]

\* TensorOp::token_shift
\* token_shift taking, besides a one-row state, a state of the output's shape
token_shiftStateLikeOutput(time_mix, x, sx, output) ==
    LET shape == output
    IN [ steps |-> << Check(time_mix, <<shape[1], 1, 1>>),
                      Check(x, shape),
                      CheckOr(sx, <<shape[1], 1, shape[3]>>, shape),
                      Pipeline("token_shift"), BindGroup("token_shift") >>,
         value |-> << TensorOp("token_shift",
                               <<block_count(shape[1] \div 4),
                                 shape[2], shape[3]>>) >> ]

token_shift(time_mix, x, sx, output) ==
    LET shape == output
    IN [ steps |-> << Check(time_mix, <<shape[1], 1, 1>>),
                      Check(x, shape),
                      CheckOr(sx, <<shape[1], 1, shape[3]>>,
                                  <<shape[1], 4, shape[3]>>),
                      Pipeline("token_shift"), BindGroup("token_shift") >>,
         value |-> << TensorOp("token_shift",
                               <<block_count(shape[1] \div 4),
                                 shape[2], shape[3]>>) >> ]

\* TensorOp::token_mix
token_mix(mask, time_decay, time_first, x, k, v, r, output, state) ==
    LET shape == output
    IN [ steps |-> << Check(mask, <<1, 1, 1>>),
                      Check(x, shape),
                      Check(k, shape),
                      Check(v, shape),
                      Check(r, shape),
                      Check(time_decay, <<shape[1], 1, 1>>),
                      Check(time_first, <<shape[1], 1, 1>>),
                      Check(state, <<shape[1], 4, shape[3]>>),
                      Pipeline("token_mix"), BindGroup("token_mix") >>,
         value |-> << TensorOp("token_mix",
                               <<block_count(shape[1] \div 4),
                                 1, shape[3]>>) >> ]

\* TensorOp::squared_relu
squared_relu(x) ==
    LET shape == x
    IN [ steps |-> << Pipeline("squared_relu"), BindGroup("squared_relu") >>,
         value |-> << TensorOp("squared_relu",
                               <<block_count(shape[1] \div 4),
                                 shape[2], shape[3]>>) >> ]

\* TensorOp::channel_mix
channel_mix(mask, x, r, v, output, state) ==
    LET shape == output
    IN [ steps |-> << Check(mask, <<1, 1, 1>>),
                      Check(x, shape),
                      Check(v, shape),
                      Check(r, shape),
                      Check(state, <<shape[1], 1, shape[3]>>),
                      Pipeline("channel_mix"), BindGroup("channel_mix") >>,
         value |-> << TensorOp("channel_mix",
                               <<block_count(shape[1] \div 4),
                                 shape[2], shape[3]>>) >> ]

\* TensorOp::blit, on the shapes of the two views
blit(input, output) ==
    LET shape == output
    IN [ steps |-> << Check(input, shape),
                      Pipeline("blit"), BindGroup("blit") >>,
         value |-> << TensorOp("blit", <<block_count(shape[1] \div 4),
                                         shape[2], shape[3]>>) >> ]

\* TensorOp::quantize_mat_int8
\* quantize_mat_int8 without the branch on the shape
quantize_mat_int8MxFirst(input, mx, rx_, my, ry, output) ==
    LET shape == output
        op_my == TensorOp("quant_mat_int8_my", <<1, shape[2], 1>>)
        op_ry == TensorOp("quant_mat_int8_ry", <<1, shape[2], 1>>)
        op_mx == TensorOp("quant_mat_int8_mx", <<1, shape[1] \div 4, 1>>)
        op_rx == TensorOp("quant_mat_int8_rx", <<1, shape[1] \div 4, 1>>)
        quantize == TensorOp("quant_mat_int8",
                             <<shape[1] \div 4, shape[2], 1>>)
    IN [ steps |-> << Check(input, shape),
                      Check(mx, <<shape[1], 1, 1>>),
                      Check(rx_, <<shape[1], 1, 1>>),
                      Check(my, <<shape[2], 1, 1>>),
                      Check(ry, <<shape[2], 1, 1>>),
                      Pipeline("quant_mat_int8_my"),
                      BindGroup("quant_mat_int8_my"),
                      Pipeline("quant_mat_int8_ry"),
                      BindGroup("quant_mat_int8_ry"),
                      Pipeline("quant_mat_int8_mx"),
                      BindGroup("quant_mat_int8_mx"),
                      Pipeline("quant_mat_int8_rx"),
                      BindGroup("quant_mat_int8_rx"),
                      Pipeline("quant_mat_int8"),
                      BindGroup("quant_mat_int8") >>,
         value |-> <<op_mx, op_my, op_rx, op_ry, quantize>> ]

quantize_mat_int8(input, mx, rx_, my, ry, output) ==
    LET shape == output
        op_my == TensorOp("quant_mat_int8_my", <<1, shape[2], 1>>)
        op_ry == TensorOp("quant_mat_int8_ry", <<1, shape[2], 1>>)
        op_mx == TensorOp("quant_mat_int8_mx", <<1, shape[1] \div 4, 1>>)
        op_rx == TensorOp("quant_mat_int8_rx", <<1, shape[1] \div 4, 1>>)
        quantize == TensorOp("quant_mat_int8",
                             <<shape[1] \div 4, shape[2], 1>>)
    IN [ steps |-> << Check(input, shape),
                      Check(mx, <<shape[1], 1, 1>>),
                      Check(rx_, <<shape[1], 1, 1>>),
                      Check(my, <<shape[2], 1, 1>>),
                      Check(ry, <<shape[2], 1, 1>>),
                      Pipeline("quant_mat_int8_my"),
                      BindGroup("quant_mat_int8_my"),
                      Pipeline("quant_mat_int8_ry"),
                      BindGroup("quant_mat_int8_ry"),
                      Pipeline("quant_mat_int8_mx"),
                      BindGroup("quant_mat_int8_mx"),
                      Pipeline("quant_mat_int8_rx"),
                      BindGroup("quant_mat_int8_rx"),
                      Pipeline("quant_mat_int8"),
                      BindGroup("quant_mat_int8") >>,
         value |-> IF shape[2] > shape[1]
                   THEN <<op_my, op_mx, op_rx, op_ry, quantize>>
                   ELSE <<op_mx, op_my, op_rx, op_ry, quantize>> ]

\* TensorOp::quantize_vec_fp16
quantize_vec_fp16(input, output) ==
    LET shape == output
    IN [ steps |-> << Check(input, shape),
                      Pipeline("quant_vec_fp16"),
                      BindGroup("quant_vec_fp16") >>,
         value |-> << TensorOp("quant_vec_fp16",
                               <<block_count(shape[1] \div 4),
                                 shape[2], shape[3]>>) >> ]

\* the pipelines of ContextBuilder::with_default_pipelines
Pipelines ==
    { "softmax", "layer_norm", "matmul", "matmul_int8", "add", "token_shift",
      "token_mix", "squared_relu", "channel_mix", "blit",
      "quant_mat_int8_my", "quant_mat_int8_ry", "quant_mat_int8_mx",
      "quant_mat_int8_rx", "quant_mat_int8", "quant_vec_fp16" }

\* the contexts an entry point is tried with: every pipeline present, or
\* one of the pipelines it asks for absent
Contexts(entry) ==
    {Pipelines} \cup
    { Pipelines \ {entry.steps[i][2]} :
        i \in { j \in 1..Len(entry.steps) : entry.steps[j][1] = "pipeline" } }

\* what a call of an entry point returns and what it did on the way
Call(entry, avail) ==
    LET r == Exec(entry.steps, avail, <<>>)
    IN [ result |-> r.result,
         trace |-> r.trace,
         value |-> IF r.result[1] = "Ok" THEN entry.value ELSE <<>> ]

KernelInit ==
    /\ k_call = None
    /\ k_ret = None

\* a call of entry point `name` with the shapes `args`
Enter(name, args, entry) ==
    /\ k_call' = Some([name |-> name, args |-> args])
    /\ \E avail \in Contexts(entry) : k_ret' = Some(Call(entry, avail))
    /\ UNCHANGED notKernelVars

CallCopyTensor ==
    /\ k_call = None
    /\ \E source, destination \in Shapes :
           Enter("copy_tensor", <<source, destination>>,
                 copy_tensor(source, destination))

CallSoftmax ==
    /\ k_call = None
    /\ \E x \in Shapes : Enter("softmax", <<x>>, softmax(x))

CallLayerNorm ==
    /\ k_call = None
    /\ \E w, b, x \in Shapes : Enter("layer_norm", <<w, b, x>>, layer_norm(w, b, x))

CallMatmul ==
    /\ k_call = None
    /\ \E matrix, input, output \in Shapes :
           Enter("matmul", <<matrix, input, output>>,
                 matmul(matrix, input, output))

CallMatmulInt8 ==
    /\ k_call = None
    /\ \E matrix, mx, rx_, my, ry \in VecShapes, input, output \in SmallShapes :
           Enter("matmul_int8", <<matrix, mx, rx_, my, ry, input, output>>,
                 matmul_int8(matrix, mx, rx_, my, ry, input, output))

CallAdd ==
    /\ k_call = None
    /\ \E input, output \in Shapes :
           Enter("add", <<input, output>>, add(input, output))

CallTokenShift ==
    /\ k_call = None
    /\ \E time_mix, x, sx, output \in Shapes :
           Enter("token_shift", <<time_mix, x, sx, output>>,
                 token_shift(time_mix, x, sx, output))

CallTokenMix ==
    /\ k_call = None
    /\ \E mask, time_decay, time_first \in VecShapes,
          x, k, v, r, output, state \in SmallShapes :
           Enter("token_mix",
                 <<mask, time_decay, time_first, x, k, v, r, output, state>>,
                 token_mix(mask, time_decay, time_first, x, k, v, r, output,
                           state))

CallSquaredRelu ==
    /\ k_call = None
    /\ \E x \in Shapes : Enter("squared_relu", <<x>>, squared_relu(x))

CallChannelMix ==
    /\ k_call = None
    /\ \E mask \in VecShapes, x, r, v, output, state \in SmallShapes :
           Enter("channel_mix", <<mask, x, r, v, output, state>>,
                 channel_mix(mask, x, r, v, output, state))

CallBlit ==
    /\ k_call = None
    /\ \E input, output \in Shapes :
           Enter("blit", <<input, output>>, blit(input, output))

CallQuantizeMatInt8 ==
    /\ k_call = None
    /\ \E input, mx, rx_, my, ry, output \in QuantShapes :
           Enter("quantize_mat_int8", <<input, mx, rx_, my, ry, output>>,
                 quantize_mat_int8(input, mx, rx_, my, ry, output))

CallQuantizeVecFp16 ==
    /\ k_call = None
    /\ \E input, output \in Shapes :
           Enter("quantize_vec_fp16", <<input, output>>,
                 quantize_vec_fp16(input, output))

\* the caller drops what the call returned
Drop ==
    /\ k_call # None
    /\ k_call' = None
    /\ k_ret' = None
    /\ UNCHANGED notKernelVars

NextKernel ==
    \/ CallCopyTensor
    \/ CallSoftmax
    \/ CallLayerNorm
    \/ CallMatmul
    \/ CallMatmulInt8
    \/ CallAdd
    \/ CallTokenShift
    \/ CallTokenMix
    \/ CallSquaredRelu
    \/ CallChannelMix
    \/ CallBlit
    \/ CallQuantizeMatInt8
    \/ CallQuantizeVecFp16
    \/ Drop

\* ================================================= tensors, copy and blit
\* The session of tests::test_copy and tests::test_blit: a tensor `output`
\* is uploaded, blit ops are built onto views of it, the ops are recorded in
\* a compute pass, copy_tensor(output, map) is recorded, the encoder is
\* submitted and `map` is read back to the host.
MaxTok == 2        \* largest shape[1] of a tensor of the session
MaxBat == 2        \* largest shape[2] of a tensor of the session
MaxBlit == 2       \* blit ops pushed in one session

\* shape[0] of the tensors of the session
GChans == {2, 4}
GShapes == { <<c, t, b>> : c \in GChans, t \in 1..MaxTok, b \in 1..MaxBat }

\* floor(log2(n)) for n >= 1
RECURSIVE Log2(_)
Log2(n) == IF n < 2 THEN 0 ELSE 1 + Log2(n \div 2)

\* The bit pattern of the f32 of value h / 2 (h an integer of at most 24
\* bits), as the pair <<upper 16 bits, lower 16 bits>>: sign, exponent
\* biased by 127, 23 bits of mantissa.
F32(h) ==
    IF h = 0
    THEN <<0, 0>>
    ELSE LET a == IF h < 0 THEN -h ELSE h
             e == Log2(a)
             magnitude == (126 + e) * Pow2(23) + (a - Pow2(e)) * Pow2(23 - e)
         IN << (IF h < 0 THEN Pow2(15) ELSE 0) + magnitude \div Pow2(16),
               magnitude % Pow2(16) >>

\* the f32 values 0.0, 1.5, 2.0, -1.0 of test_copy
Words == <<F32(0), F32(3), F32(4), F32(-2)>>

\* a Vec<f32> of n elements, the v-th of the vectors tried
DataOf(n, v) == [i \in 1..n |-> Words[((i + v) % Len(Words)) + 1]]

\* the uploaded contents of `output` and of the k-th blit input: every
\* element differs from every other
OldData(n) == [i \in 1..n |-> F32(2 * (900 + i))]
InputData(k, n) == [i \in 1..n |-> F32(2 * (100 * k + i))]

\* the four bytes of one f32, little-endian
ToBytes(w) ==
    << w[2] % 256, w[2] \div 256, w[1] % 256, w[1] \div 256 >>
FromBytes(b) == << b[3] + 256 * b[4], b[1] + 256 * b[2] >>

\* the bytes written to the GPU buffer for a host vector
Upload(data) ==
    [k \in 1..(Len(data) * F32Size) |->
        ToBytes(data[((k - 1) \div F32Size) + 1])[((k - 1) % F32Size) + 1]]

\* the host vector read from a mapped buffer
Download(buffer) ==
    [i \in 1..(Len(buffer) \div F32Size) |->
        FromBytes(SubSeq(buffer, F32Size * (i - 1) + 1, F32Size * i))]

\* TensorGpu::from_data / context.tensor_from_data
from_data(shape, data) ==
    IF Len(data) = ShapeLen(shape)
    THEN <<"Ok", Upload(data)>>
    ELSE <<"Err", "Size", ShapeLen(shape), Len(data)>>

\* TensorGpu::init / context.init_tensor: a zeroed buffer
init_tensor(shape) == [k \in 1..TensorSize(shape) |-> 0]

\* half-open index ranges lo..hi of an axis of n elements
Ranges(n) == { <<lo, hi>> : lo \in 0..(n - 1), hi \in 1..n } \cap
             { r \in (0..n) \X (0..n) : r[1] < r[2] }

\* as_view: the views of a tensor, one range per axis
Views(shape) == Ranges(shape[1]) \X Ranges(shape[2]) \X Ranges(shape[3])
WholeView(shape) == << <<0, shape[1]>>, <<0, shape[2]>>, <<0, shape[3]>> >>

\* TensorView::shape
ViewShape(view) ==
    << view[1][2] - view[1][1], view[2][2] - view[2][1],
       view[3][2] - view[3][1] >>

\* position of element (c, t, b) in the buffer of a tensor, in elements
ElementIndex(shape, c, t, b) == c + shape[1] * (t + shape[2] * b)

\* copy_buffer_to_buffer(source, so, destination, do, size), executed
CopyBytes(source, so, destination, do, size) ==
    [k \in 1..Len(destination) |->
        IF k > do /\ k <= do + size
        THEN source[so + (k - do)]
        ELSE destination[k]]

\* The invocations of a dispatch: workgroups of BLOCK_SIZE invocations along
\* x.  Invocation (x, t, b) of the blit kernel handles the four channels
\* 4x .. 4x + 3 of row (t, b) of the views.
Dispatched(dispatch, c, t, b) ==
    /\ (c \div 4) < BLOCK_SIZE * dispatch[1]
    /\ t < dispatch[2]
    /\ b < dispatch[3]

\* the blit kernel, executed: every dispatched invocation copies its
\* elements of the input view to the same place of the output view
ExecBlit(o, ibuf, obuf) ==
    LET oshape == o.oshape
        ov == o.output
        iv == o.input
    IN [k \in 1..Len(obuf) |->
          LET e == (k - 1) \div F32Size
              byte == (k - 1) % F32Size
              c == (e % oshape[1]) - ov[1][1]
              t == ((e \div oshape[1]) % oshape[2]) - ov[2][1]
              b == (e \div (oshape[1] * oshape[2])) - ov[3][1]
              vs == ViewShape(ov)
          IN IF /\ c >= 0 /\ c < vs[1]
                /\ t >= 0 /\ t < vs[2]
                /\ b >= 0 /\ b < vs[3]
                /\ Dispatched(o.op.dispatch, c, t, b)
             THEN ibuf[F32Size * ElementIndex(o.ishape, iv[1][1] + c,
                                               iv[2][1] + t, iv[3][1] + b)
                       + byte + 1]
             ELSE obuf[k]]

\* the buffer of the input tensor of the k-th blit op
InputBuffer(ops, k) ==
    Upload(InputData(k, ShapeLen(ops[k].ishape)))

\* queue.submit: the recorded commands run in the order recorded
RECURSIVE RunCommands(_, _, _, _)
RunCommands(cmds, ops, out, map) ==
    IF cmds = <<>>
    THEN [output |-> out, map |-> map]
    ELSE LET cmd == Head(cmds)
         IN IF cmd[1] = "dispatch"
            THEN RunCommands(Tail(cmds), ops,
                             ExecBlit(ops[cmd[2]], InputBuffer(ops, cmd[2]),
                                      out),
                             map)
            ELSE RunCommands(Tail(cmds), ops, out,
                             CopyBytes(out, cmd[2], map, cmd[3], cmd[4]))

\* the copy commands a call recorded
Recorded(trace) == SelectSeq(trace, LAMBDA s : s[1] = "copy")

GpuIdle ==
    /\ g_pc = "idle"
    /\ g_shape = <<1, 1, 1>>
    /\ g_data = <<>>
    /\ g_mshape = <<1, 1, 1>>
    /\ g_output = <<>>
    /\ g_map = <<>>
    /\ g_ops = <<>>
    /\ g_encoder = <<>>
    /\ g_host = None
    /\ g_result = None

\* test_copy: any data for `output`, any shape for `map`
CopyInit ==
    /\ g_pc = "new"
    /\ g_shape \in GShapes
    /\ g_mshape \in GShapes
    /\ \E n \in {ShapeLen(g_shape) - 1, ShapeLen(g_shape),
                 ShapeLen(g_shape) + 1} :
         \E v \in 0..(Len(Words) - 1) : g_data = DataOf(n, v)
    /\ g_output = <<>>
    /\ g_map = <<>>
    /\ g_ops = <<>>
    /\ g_encoder = <<>>
    /\ g_host = None
    /\ g_result = None

\* test_blit: `map` is made with output.shape()
BlitInit ==
    /\ g_pc = "new"
    /\ g_shape \in GShapes
    /\ g_mshape = g_shape
    /\ g_data = OldData(ShapeLen(g_shape))
    /\ g_output = <<>>
    /\ g_map = <<>>
    /\ g_ops = <<>>
    /\ g_encoder = <<>>
    /\ g_host = None
    /\ g_result = None

\* the `?` of the test: the session ends with the error
Fail(err) ==
    /\ g_pc' = "failed"
    /\ g_result' = Some(err)

\* TensorGpu::from_data(shape, data)?, then init(map shape)
FromData ==
    /\ g_pc = "new"
    /\ LET r == from_data(g_shape, g_data)
       IN IF r[1] = "Ok"
          THEN /\ g_output' = r[2]
               /\ g_map' = init_tensor(g_mshape)
               /\ g_pc' = "ops"
               /\ g_result' = g_result
          ELSE /\ Fail(r)
               /\ UNCHANGED <<g_output, g_map>>
    /\ UNCHANGED <<g_shape, g_data, g_mshape, g_ops, g_encoder, g_host>>
    /\ UNCHANGED notGpuVars

\* ops.push(TensorOp::blit(input.as_view((.., .., ..))?, output.as_view(..)?)?)
\* The input tensor is made for the op, of the output view's shape or with
\* one more token row.
Blit ==
    /\ g_pc = "ops"
    /\ Len(g_ops) < MaxBlit
    /\ \E ov \in Views(g_shape), extra \in 0..1 :
         LET vs == ViewShape(ov)
             ishape == <<vs[1], vs[2] + extra, vs[3]>>
             iv == WholeView(ishape)
             r == Call(blit(ViewShape(iv), ViewShape(ov)), Pipelines)
         IN IF r.result[1] = "Ok"
            THEN /\ g_ops' = Append(g_ops, [ ishape |-> ishape,
                                             input |-> iv,
                                             oshape |-> g_shape,
                                             output |-> ov,
                                             op |-> r.value[1] ])
                 /\ UNCHANGED <<g_pc, g_result>>
            ELSE /\ Fail(r.result)
                 /\ UNCHANGED g_ops
    /\ UNCHANGED <<g_shape, g_data, g_mshape, g_output, g_map, g_encoder,
                   g_host>>
    /\ UNCHANGED notGpuVars

\* ops.iter().for_each(|op| pass.execute_tensor_op(op))
Pass ==
    /\ g_pc = "ops"
    /\ g_ops # <<>>
    /\ g_encoder' = [k \in 1..Len(g_ops) |-> <<"dispatch", k>>]
    /\ g_pc' = "copy"
    /\ UNCHANGED <<g_shape, g_data, g_mshape, g_output, g_map, g_ops, g_host,
                   g_result>>
    /\ UNCHANGED notGpuVars

\* encoder.copy_tensor(&output, &map)?
CopyTensor ==
    /\ \/ g_pc = "copy"
       \/ g_pc = "ops" /\ g_ops = <<>>
    /\ LET r == Call(copy_tensor(g_shape, g_mshape), Pipelines)
       IN IF r.result[1] = "Ok"
          THEN /\ g_encoder' = g_encoder \o Recorded(r.trace)
               /\ g_pc' = "submit"
               /\ g_result' = g_result
          ELSE /\ Fail(r.result)
               /\ UNCHANGED g_encoder
    /\ UNCHANGED <<g_shape, g_data, g_mshape, g_output, g_map, g_ops, g_host>>
    /\ UNCHANGED notGpuVars

\* context.queue.submit(Some(encoder.finish()))
QueueSubmit ==
    /\ g_pc = "submit"
    /\ LET r == RunCommands(g_encoder, g_ops, g_output, g_map)
       IN /\ g_output' = r.output
          /\ g_map' = r.map
    /\ g_pc' = "back"
    /\ UNCHANGED <<g_shape, g_data, g_mshape, g_ops, g_encoder, g_host,
                   g_result>>
    /\ UNCHANGED notGpuVars

\* Vec::from(TensorCpu::from(map))
ReadBack ==
    /\ g_pc = "back"
    /\ g_host' = Some(Download(g_map))
    /\ g_pc' = "done"
    /\ g_result' = Some(<<"Ok">>)
    /\ UNCHANGED <<g_shape, g_data, g_mshape, g_output, g_map, g_ops,
                   g_encoder>>
    /\ UNCHANGED notGpuVars

NextCopy ==
    \/ FromData
    \/ CopyTensor
    \/ QueueSubmit
    \/ ReadBack

NextBlit ==
    \/ FromData
    \/ Blit
    \/ Pass
    \/ CopyTensor
    \/ QueueSubmit
    \/ ReadBack

\* ========================================================== specifications
vars == <<runVars, jobVars, builderVars, limitVars, kernelVars, gpuVars>>

\* Model::run on its own: no job runtime is running
JobIdle ==
    /\ handles = 0
    /\ chan = <<>>
    /\ nsub = 0
    /\ ninfo = [i \in SubIds |-> 0]
    /\ rx = [i \in SubIds |-> "unsent"]
    /\ reply = [i \in SubIds |-> <<"none">>]
    /\ recvd = <<>>
    /\ pc = "done"
    /\ cur = 0
    /\ curjob = 0
    /\ next = None
    /\ predict = None
    /\ checked = "none"
    /\ jobs = <<>>
    /\ task = [i \in SubIds |-> "none"]
    /\ exit = <<"Ok">>

\* the job runtime on its own: no Model::run call is made
RunIdle ==
    /\ max_batch = 1
    /\ token_chunk_size = 1
    /\ tokens = <<<<>>>>
    /\ prompt = tokens
    /\ pre = tokens
    /\ inputs = <<>>
    /\ last = None
    /\ result = <<"None">>
    /\ called = FALSE
    /\ fed = <<<<>>>>
    /\ ncall = 0
    /\ nok = 0
    /\ nrun = 0
    /\ run_pc = "idle"

\* no StateBuilder is being configured
BuilderIdle ==
    /\ sb_num_layer = 1
    /\ sb_max_batch = 1
    /\ sb_chunk_size = 1

\* no ContextBuilder is being configured
LimitsIdle ==
    /\ model_info = [num_emb |-> KiB, num_hidden |-> KiB, num_vocab |-> KiB]
    /\ limits = None

\* no kernel entry point is being called
KernelIdle == KernelInit

Init == RunInit /\ JobIdle /\ BuilderIdle /\ LimitsIdle /\ KernelIdle /\ GpuIdle
Next == Run \/ RunBack \/ RunDrop
Spec == Init /\ [][Next]_vars

InitJob ==
    JobInit /\ RunIdle /\ BuilderIdle /\ LimitsIdle /\ KernelIdle /\ GpuIdle
SpecJob == InitJob /\ [][NextJob]_vars

\* the job runtime under a fair scheduler: the worker task is polled again
\* whenever the future it awaits (build, load) is ready, and the task spawned
\* for back() runs to its end
FairJob ==
    /\ WF_vars(Build)
    /\ WF_vars(Load)
    /\ WF_vars(Submit)
    /\ WF_vars(Back)
\* the runtime used through the one handle JobRuntime::new returns
NextJobFair ==
    \/ DropHandle
    \/ Send
    \/ DropReceiver
    \/ RecvClosed
    \/ RecvSkip
    \/ Recv
    \/ Build
    \/ Load
    \/ Submit
    \/ Predict
    \/ Await
    \/ Back
SpecJobFair == InitJob /\ [][NextJobFair]_vars /\ FairJob

InitBuilder ==
    BuilderInit /\ RunIdle /\ JobIdle /\ LimitsIdle /\ KernelIdle /\ GpuIdle
SpecBuilder == InitBuilder /\ [][NextBuilder]_vars

InitLimits ==
    LimitsInit /\ RunIdle /\ JobIdle /\ BuilderIdle /\ KernelIdle /\ GpuIdle
SpecLimits == InitLimits /\ [][NextLimits]_vars

InitKernel ==
    KernelInit /\ RunIdle /\ JobIdle /\ BuilderIdle /\ LimitsIdle /\ GpuIdle
SpecKernel == InitKernel /\ [][NextKernel]_vars

InitCopy ==
    CopyInit /\ RunIdle /\ JobIdle /\ BuilderIdle /\ LimitsIdle /\ KernelIdle
SpecCopy == InitCopy /\ [][NextCopy]_vars

InitBlit ==
    BlitInit /\ RunIdle /\ JobIdle /\ BuilderIdle /\ LimitsIdle /\ KernelIdle
SpecBlit == InitBlit /\ [][NextBlit]_vars

\* ================================================== claims about Model::run
Max(a, b) == IF a > b THEN a ELSE b

RECURSIVE SumLenBefore(_, _)
\* total length of the first n batches of toks
SumLenBefore(toks, n) ==
    IF n = 0 THEN 0 ELSE SumLenBefore(toks, n - 1) + Len(toks[n])

\* tokens processed by the step that started from `pre`
StepSize == Min(SumLen(pre), token_chunk_size)

\* budget left for batch b (1-based) after the batches before it
BudgetLeft(b) == Max(0, StepSize - SumLenBefore(pre, b - 1))

\* batches (1-based) that were split by the latest step
SplitBatches == {b \in 1..max_batch : inputs[b] # <<>> /\ tokens[b] # <<>>}

\* C1: a run call that passes both input checks hands run_internal exactly
\* min(total, token_chunk_size) tokens in all, and leaves
\* total - min(total, token_chunk_size) tokens in `tokens`.
C1_StepSize ==
    called =>
        /\ SumLen(inputs) = StepSize
        /\ SumLen(tokens) = SumLen(pre) - StepSize

C1_Witness ==
    /\ called
    /\ max_batch = 2
    /\ SumLen(pre) > token_chunk_size
    /\ SumLen(inputs) = token_chunk_size
    /\ inputs[1] # <<>> /\ inputs[2] # <<>>

\* C2: tokens are drawn greedily in ascending batch order: each batch's
\* input is the prefix of its original tokens as long as the budget left by
\* the batches before it allows, the new tokens are the remaining suffix,
\* nothing is lost or reordered, and at most one batch is split, with the
\* batches before it emptied and the batches after it untouched.
C2_Greedy ==
    called =>
        /\ \A b \in 1..max_batch :
              LET n == Min(Len(pre[b]), BudgetLeft(b))
              IN /\ inputs[b] = SubSeq(pre[b], 1, n)
                 /\ tokens[b] = SubSeq(pre[b], n + 1, Len(pre[b]))
                 /\ inputs[b] \o tokens[b] = pre[b]
        /\ Cardinality(SplitBatches) <= 1
        /\ \A s \in SplitBatches :
              /\ \A b \in 1..(s - 1) : tokens[b] = <<>> /\ inputs[b] = pre[b]
              /\ \A b \in (s + 1)..max_batch : inputs[b] = <<>> /\ tokens[b] = pre[b]

C2_Witness ==
    /\ called
    /\ max_batch = 2
    /\ inputs[1] # <<>> /\ tokens[1] = <<>>
    /\ inputs[2] # <<>> /\ tokens[2] # <<>>

\* batches (1-based) that still hold tokens after the step
Leftover == {b \in 1..max_batch : tokens[b] # <<>>}
\* batches (1-based) that received input in the step
Served == {b \in 1..max_batch : inputs[b] # <<>>}
SetMax(S) == CHOOSE x \in S : \A y \in S : y <= x

\* C3 as stated: `last` is the highest-indexed batch that still has tokens
\* after chunking, and None only when no batch has leftover tokens.
C3_LastIsHighestLeftover ==
    called =>
        last = IF Leftover = {} THEN None ELSE Some(SetMax(Leftover) - 1)

\* C3 amended: `last` is the batch at which the budget ran out (the highest
\* batch that received input) when that batch still has leftover tokens, and
\* None when that batch was consumed completely, whatever later batches hold.
C3_LastIsSplitBatch ==
    called =>
        /\ Served # {}
        /\ last = IF tokens[SetMax(Served)] # <<>>
                  THEN Some(SetMax(Served) - 1)
                  ELSE None

C3_Witness ==
    /\ called
    /\ max_batch = 2
    /\ tokens[1] # <<>> /\ tokens[2] # <<>>
    /\ last = Some(0)

\* C4: a run call with tokens.len() != max_batch returns
\* BatchSize(tokens.len(), max_batch), leaves `tokens` unchanged and does not
\* invoke run_internal.
C4_BatchSize ==
    [][(nrun' > nrun /\ Len(tokens) # max_batch) =>
          /\ result' = <<"Err", "BatchSize", Len(tokens), max_batch>>
          /\ tokens' = tokens
          /\ ~called'
          /\ fed' = fed
          /\ ncall' = ncall]_vars

C4_Witness ==
    /\ nrun > 0
    /\ Len(pre) # max_batch
    /\ SumLen(pre) > 0
    /\ result = <<"Err", "BatchSize", Len(pre), max_batch>>

\* C5: a run call with the right number of batches, all of them empty,
\* returns EmptyInput, leaves `tokens` unchanged and does not invoke
\* run_internal.
C5_EmptyInput ==
    [][(nrun' > nrun /\ Len(tokens) = max_batch /\ SumLen(tokens) = 0) =>
          /\ result' = <<"Err", "EmptyInput">>
          /\ tokens' = tokens
          /\ ~called'
          /\ fed' = fed
          /\ ncall' = ncall]_vars

C5_Witness ==
    /\ nrun > 0
    /\ max_batch = 2
    /\ Len(pre) = max_batch
    /\ SumLen(pre) = 0
    /\ result = <<"Err", "EmptyInput">>

\* C6: chunking law at the token level: for every batch the inputs handed to
\* run_internal so far, followed by what is left in `tokens`, are the
\* original tokens; once `tokens` is drained the per-batch streams are those
\* of one call with an unbounded chunk size.
C6_ChunkingLaw ==
    (Len(prompt) = max_batch /\ SumLen(prompt) > 0) =>
        /\ \A b \in 1..max_batch : fed[b] \o tokens[b] = prompt[b]
        /\ SumLen(tokens) = 0 =>
              fed = run(prompt, max_batch, SumLen(prompt), TRUE).inputs

C6_Witness ==
    /\ max_batch = 2
    /\ Len(prompt) = 2
    /\ Len(prompt[1]) >= 2 /\ Len(prompt[2]) >= 2
    /\ prompt[1] # prompt[2]
    /\ SumLen(tokens) = 0
    /\ ncall >= 3
    /\ fed = prompt

\* ================================================= claims about JobRuntime
\* the back() task of submission id has run to its end
Finished(id) == task[id] \in {"ok", "err"}
\* a reply was sent on the one-shot channel of submission id
Replied(id) == reply[id][1] \in {"ok", "discarded"}
\* submissions the worker received whose info iterator is non-empty
ServedSub(id) == (\E k \in 1..Len(recvd) : recvd[k] = id) /\ ninfo[id] >= 1
\* jobs that were submitted and whose back() has not completed
InFlight == {j \in 1..Len(jobs) : jobs[j].stage = "submitted"}
\* jobs loaded for submission id
JobsFor(id) == {j \in 1..Len(jobs) : jobs[j].sub = id}

\* C7: the worker takes submissions in the order they were sent, and the
\* step of an earlier submission is finished (its reply sent) before the job
\* of a later one is loaded or submitted and before the later reply is sent,
\* with or without reuse of a predicted job.
C7_Fifo ==
    /\ \A k \in 1..Len(recvd) : recvd[k] = k
    /\ \A i \in 1..nsub : \A k \in (i + 1)..nsub :
          (ServedSub(i) /\ (cur = k \/ JobsFor(k) # {} \/ Replied(k))) => Finished(i)

C7_Witness ==
    /\ cur = 2
    /\ checked = "pass"
    /\ pc = "submit"
    /\ jobs[curjob].stage = "loaded"
    /\ reply[1][1] = "ok"

\* C8: at most one job is submitted and not yet read back; the worker is
\* never about to submit while a job is in flight, and a predicted job is
\* only built.
C8_OneInFlight ==
    /\ Cardinality(InFlight) <= 1
    /\ Cardinality({i \in SubIds : task[i] = "running"}) <= 1
    /\ pc \in {"recv", "build", "load", "submit"} => InFlight = {}
    /\ predict # None => jobs[predict[1]].stage = "built"

C8_Witness ==
    /\ pc = "await"
    /\ predict # None
    /\ cur = 2
    /\ checked = "pass"
    /\ task[cur] = "running"
    /\ InFlight = {curjob}

\* C9: a dropped one-shot receiver changes nothing for the worker: the job
\* of the submission is still loaded, submitted and read back, a successful
\* readback whose reply cannot be delivered is not an error, and the worker
\* moves on to the next submission.
C9_DroppedReceiver ==
    /\ \A id \in 1..nsub :
          /\ (\E j \in JobsFor(id) : jobs[j].stage = "backed") =>
                 task[id] = "ok" /\ Replied(id)
          /\ reply[id] = <<"discarded">> => rx[id] = "dropped"
          /\ (ServedSub(id) /\ rx[id] = "dropped" /\ cur # id) =>
                 /\ \E j \in JobsFor(id) : jobs[j].stage = "backed"
                 /\ task[id] = "ok"
    /\ exit = <<"Err", "back">> => \E j \in JobsFor(cur) : jobs[j].stage = "failed"

C9_Witness ==
    /\ reply[1] = <<"discarded">>
    /\ task[1] = "ok"
    /\ reply[2][1] = "ok"
    /\ pc = "recv"

\* job.back() returned an error for submission id
ReadbackFailed(id) == \E j \in JobsFor(id) : jobs[j].stage = "failed"

\* C10 as stated: a readback error reaches the caller as the content of the
\* submission's one-shot reply.
C10_ErrorInReply ==
    \A id \in 1..nsub : ReadbackFailed(id) => reply[id] = <<"err", "back">>

\* C10 amended: on a readback error nothing is sent on the one-shot channel,
\* the sender is dropped and the caller sees a closed channel; the error goes
\* to the worker, which does not start another iteration and returns an error.
C10_ErrorClosesReply ==
    \A id \in 1..nsub :
        ReadbackFailed(id) =>
            /\ reply[id] = <<"closed">>
            /\ task[id] = "err"
            /\ cur = id
            /\ pc \in {"predict", "await", "done"}
            /\ pc = "done" => exit[1] = "Err"

C10_Witness ==
    /\ ReadbackFailed(2)
    /\ rx[2] = "alive"
    /\ reply[2] = <<"closed">>
    /\ reply[1][1] = "ok"
    /\ exit = <<"Err", "back">>

\* C11 as stated: with every handle dropped the worker terminates at its
\* next channel receive, and the result of a step in flight is discarded.
C11_TerminatesAtNextReceive ==
    [][/\ (handles = 0 /\ pc = "recv" /\ (pc' # pc \/ recvd' # recvd)) =>
              pc' = "done"
       /\ \A id \in SubIds :
              (handles = 0 /\ task[id] = "running" /\ task'[id] = "ok") =>
                  reply'[id] = <<"discarded">>]_vars

\* C11 amended: with every handle dropped the worker returns Ok at the first
\* receive that finds the channel empty; a submission still queued is
\* received and handled first; a step in flight runs on and its reply is
\* sent, reaching the caller unless the caller dropped the one-shot receiver.
C11_TerminatesWhenDrained ==
    [][/\ (handles = 0 /\ chan = <<>> /\ pc = "recv" /\ pc' # pc) =>
              (pc' = "done" /\ exit' = <<"Ok">>)
       /\ (handles = 0 /\ chan # <<>> /\ pc = "recv"
              /\ (pc' # pc \/ recvd' # recvd)) =>
              (recvd' = Append(recvd, Head(chan)) /\ pc' # "done")
       /\ (exit # <<"Ok">> /\ exit' = <<"Ok">>) =>
              (handles = 0 /\ chan = <<>> /\ Len(recvd) = nsub)
       /\ \A id \in SubIds :
              (handles = 0 /\ task[id] = "running" /\ task'[id] = "ok") =>
                  (reply'[id][1] = "ok" <=> rx[id] = "alive")]_vars

C11_Witness ==
    /\ handles = 0
    /\ chan = <<2>>
    /\ ninfo[2] >= 1
    /\ pc = "await"
    /\ cur = 1
    /\ task[1] = "running"
    /\ rx[1] = "alive"

\* C12: the submission channel holds at most one submission the worker has
\* not received, and a send completes only into an empty channel, whatever
\* the number of live handles.
C12_CapacityOne ==
    /\ [](/\ Len(chan) <= ChannelCapacity
          /\ nsub - Len(recvd) <= 1
          /\ pc # "done" => nsub - Len(recvd) = Len(chan))
    /\ [][nsub' # nsub => (chan = <<>> /\ chan' = <<nsub + 1>>)]_vars

C12_Witness ==
    /\ handles = 2
    /\ Len(chan) = 1
    /\ nsub < MaxSub
    /\ pc = "await"
    /\ task[cur] = "running"

\* the stage changes a job may go through
StageSteps ==
    {<<"built", "loaded">>, <<"loaded", "submitted">>,
     <<"submitted", "backed">>, <<"submitted", "failed">>,
     <<"built", "dropped">>}

\* C18: every job goes build, load, submit, back, each at most once: it is
\* loaded only while merely built, submitted only once loaded, read back only
\* once submitted; a built job may be dropped unloaded, and a job is never
\* loaded for a second submission.
C18_Lifecycle ==
    /\ [](\A j \in 1..Len(jobs) :
            /\ jobs[j].stage \in {"loaded", "submitted", "backed", "failed"} =>
                  (jobs[j].sub # 0 /\ jobs[j].chunk = chunk(NewInput(jobs[j].sub)))
            /\ \A k \in 1..Len(jobs) :
                  (jobs[j].sub # 0 /\ jobs[j].sub = jobs[k].sub) => j = k)
    /\ [][/\ Len(jobs') >= Len(jobs)
          /\ \A j \in 1..Len(jobs') :
                IF j <= Len(jobs)
                THEN /\ jobs'[j].stage # jobs[j].stage =>
                            <<jobs[j].stage, jobs'[j].stage>> \in StageSteps
                     /\ jobs[j].sub # 0 => jobs'[j].sub = jobs[j].sub
                     /\ jobs'[j].info = jobs[j].info
                ELSE jobs'[j].stage = "built" /\ jobs'[j].sub = 0]_vars

C18_Witness ==
    \E j, k \in 1..Len(jobs) :
        /\ jobs[j].stage = "dropped" /\ jobs[j].sub = 0 /\ jobs[j].info[2] = 2
        /\ jobs[k].stage = "backed" /\ jobs[k].info[2] = 2 /\ jobs[k].sub = 2

\* C19: the job loaded for a submission is the predicted job exactly when a
\* prediction exists and Job::check returned true; otherwise it is a job
\* freshly built from the submission's first info, and a prediction that
\* failed the check is dropped and never used again.
C19_ReuseIffChecked ==
    /\ [](pc = "load" =>
            /\ checked = "pass" <=> jobs[curjob].info # Info(cur, 1)
            /\ jobs[curjob].stage = "built")
    /\ [][/\ (pc = "recv" /\ pc' \notin {"recv", "done"}) =>
                /\ pc' = "load" <=> (predict # None /\ checked' = "pass")
                /\ pc' = "load" => (curjob' = predict[1] /\ jobs' = jobs)
                /\ pc' # "load" => (pc' = "build" /\ curjob' = 0)
                /\ predict = None => checked' = "none"
                /\ (predict # None /\ checked' = "fail") =>
                       jobs'[predict[1]].stage = "dropped"
          /\ (pc = "build" /\ pc' = "load") =>
                /\ curjob' = Len(jobs) + 1
                /\ jobs'[curjob'] = NewJob(Info(cur, 1))
          /\ (pc = "load" /\ pc' = "submit") => jobs'[curjob].sub = cur
          /\ \A j \in 1..Len(jobs) :
                jobs[j].stage = "dropped" =>
                    /\ jobs'[j] = jobs[j]
                    /\ predict' # Some(j)
                    /\ pc' # "done" => curjob' # j]_vars

C19_Witness ==
    /\ pc = "load"
    /\ cur = 2
    /\ checked = "fail"
    /\ jobs[curjob].info = Info(2, 1)
    /\ \E j \in 1..Len(jobs) :
          jobs[j].info = Info(1, 2) /\ jobs[j].stage = "dropped"

\* the latest submission the worker received whose info iterator is
\* non-empty (0: none yet)
RECURSIVE LastServedIn(_)
LastServedIn(r) ==
    IF r = <<>> THEN 0
    ELSE IF ninfo[r[Len(r)]] >= 1 THEN r[Len(r)]
    ELSE LastServedIn(SubSeq(r, 1, Len(r) - 1))

\* the stored prediction is the one made for submission s
PredictionFor(s) ==
    IF ninfo[s] >= 2
    THEN /\ predict # None
         /\ jobs[predict[1]].info = Info(s, 2)
         /\ jobs[predict[1]].stage = "built"
    ELSE predict = None

\* C20: once a submission with a non-empty info iterator is handled, the
\* stored prediction is a job built from its second info if there is one and
\* absent otherwise; the speculative job is built after the current job's
\* submit and before the worker awaits the readback task.
C20_Lookahead ==
    /\ pc = "await" => PredictionFor(cur)
    /\ pc = "recv" =>
          IF LastServedIn(recvd) = 0 THEN predict = None
          ELSE PredictionFor(LastServedIn(recvd))
    /\ pc \in {"build", "load", "submit", "predict"} => predict = None
    /\ \A j \in 1..Len(jobs) :
          jobs[j].info # Info(jobs[j].info[1], 1) =>
              /\ jobs[j].info = Info(jobs[j].info[1], 2)
              /\ \E k \in JobsFor(jobs[j].info[1]) :
                    jobs[k].stage \in {"submitted", "backed", "failed"}

C20_Witness ==
    /\ pc = "await"
    /\ cur = 1
    /\ ninfo[1] = 2
    /\ predict # None
    /\ jobs[predict[1]].info = Info(1, 2)
    /\ task[1] = "running"

\* C17: a StateBuilder always holds max_batch >= 1 and chunk_size >= 1,
\* whatever with_max_batch / with_chunk_size calls were made on it.
C17_PositiveFields ==
    /\ sb_max_batch >= 1
    /\ sb_chunk_size >= 1

\* max(a, b, c)
Max3(a, b, c) == Max2(Max2(a, b), c)

\* C16: after auto_limits, max_buffer_size is max(256 MiB, non-head size,
\* head size) and max_storage_buffer_binding_size is max(128 MiB, non-head
\* size, head size), so the binding limit is at least 128 MiB and at least
\* the size of the largest weight matrix.
C16_LimitsAreMax ==
    limits # None =>
        LET l == limits[1]
            nonHead == max_non_head_buffer_size(model_info)
            head == head_buffer_size(model_info)
        IN /\ l.max_buffer_size = Max3(BUFFER_SIZE, nonHead, head)
           /\ l.max_storage_buffer_binding_size
                  = Max3(STORAGE_BUFFER_BINDING_SIZE, nonHead, head)
           /\ l.max_storage_buffer_binding_size >= STORAGE_BUFFER_BINDING_SIZE
           /\ l.max_storage_buffer_binding_size >= nonHead
           /\ l.max_storage_buffer_binding_size >= head

\* the shape relations each entry point declares between its arguments
Declared(name, a) ==
    CASE name = "copy_tensor" -> a[1] = a[2]
      [] name \in {"softmax", "squared_relu"} -> TRUE
      [] name = "layer_norm" ->
            /\ a[1] = <<a[3][1], 1, 1>>
            /\ a[2] = <<a[3][1], 1, 1>>
      [] name = "matmul" ->
            \E C, R, T, B \in 1..8 :
                /\ a[1] = <<C, R, 1>>
                /\ a[2] = <<C, T, B>>
                /\ a[3] = <<R, T, B>>
      [] name = "matmul_int8" ->
            \E C, R, T, B \in 1..8 :
                /\ a[1] = <<C, R, 1>>
                /\ a[2] = <<C, 1, 1>> /\ a[3] = <<C, 1, 1>>
                /\ a[4] = <<R, 1, 1>> /\ a[5] = <<R, 1, 1>>
                /\ a[6] = <<C, T, B>>
                /\ a[7] = <<R, T, B>>
      [] name \in {"add", "blit", "quantize_vec_fp16"} -> a[1] = a[2]
      [] name = "token_shift" ->
            \E C, T, B \in 1..8 :
                /\ a[1] = <<C, 1, 1>>
                /\ a[2] = <<C, T, B>>
                /\ a[3] \in {<<C, 1, B>>, <<C, 4, B>>}
                /\ a[4] = <<C, T, B>>
      [] name = "token_mix" ->
            \E C, T, B \in 1..8 :
                /\ a[1] = <<1, 1, 1>>
                /\ a[2] = <<C, 1, 1>> /\ a[3] = <<C, 1, 1>>
                /\ \A i \in 4..8 : a[i] = <<C, T, B>>
                /\ a[9] = <<C, 4, B>>
      [] name = "channel_mix" ->
            \E C, T, B \in 1..8 :
                /\ a[1] = <<1, 1, 1>>
                /\ \A i \in 2..5 : a[i] = <<C, T, B>>
                /\ a[6] = <<C, 1, B>>
      [] name = "quantize_mat_int8" ->
            \E C, R, B \in 1..8 :
                /\ a[1] = <<C, R, B>>
                /\ a[2] = <<C, 1, 1>> /\ a[3] = <<C, 1, 1>>
                /\ a[4] = <<R, 1, 1>> /\ a[5] = <<R, 1, 1>>
                /\ a[6] = <<C, R, B>>

IsCheck(s) == s[1] \in {"check", "check_or"}
IsEffect(s) == s[1] \in {"bind", "copy"}

\* C13: every kernel entry point performs all of its shape checks before
\* it creates a bind group or records a command: no effect precedes a check,
\* a call whose arguments break a declared relation returns the shape error
\* and has bound and recorded nothing, and a call that returns Ok was given
\* arguments that satisfy every declared relation.
C13_ChecksBeforeEffects ==
    k_call # None =>
        LET c == k_call[1]
            ret == k_ret[1]
            tr == ret.trace
            shapeErr == ret.result[1] = "Err" /\ ret.result[2] = "Shape"
        IN /\ \A i, j \in 1..Len(tr) :
                  (i < j /\ IsCheck(tr[j])) => ~IsEffect(tr[i])
           /\ shapeErr <=> ~Declared(c.name, c.args)
           /\ shapeErr =>
                  /\ \A i \in 1..Len(tr) : ~IsEffect(tr[i])
                  /\ ret.value = <<>>
           /\ ret.result[1] = "Ok" => Declared(c.name, c.args)

\* token_mix passed seven checks and failed the last one, on the state view
C13_Witness ==
    /\ k_call # None
    /\ k_call[1].name = "token_mix"
    /\ k_ret[1].result[1] = "Err"
    /\ k_ret[1].result[2] = "Shape"
    /\ Len(k_ret[1].trace) = 7
    /\ k_ret[1].value = <<>>

\* C14: copy round trip.  With data of the shape's length and an equally
\* shaped destination the session does not fail, copy_tensor records one
\* copy of source.size() bytes from offset 0 to offset 0, and the vector read
\* back from the destination is the uploaded vector, element for element.
C14_CopyRoundTrip ==
    /\ g_pc = "failed" =>
           \/ Len(g_data) # ShapeLen(g_shape)
           \/ g_mshape # g_shape
    /\ g_pc \in {"submit", "back", "done"} =>
           /\ Len(g_data) = ShapeLen(g_shape)
           /\ g_mshape = g_shape
           /\ g_encoder = << <<"copy", 0, 0, ShapeLen(g_shape) * F32Size>> >>
    /\ g_pc = "done" => g_host = Some(g_data)

\* the session of test_copy, read back: four elements in a [4, 1, 1] tensor
C14_Witness ==
    /\ g_pc = "done"
    /\ g_shape = <<4, 1, 1>>
    /\ g_data = << <<0, 0>>, <<16320, 0>>, <<16384, 0>>, <<49024, 0>> >>
    /\ Upload(g_data)[13] = 0 /\ Upload(g_data)[14] = 0
    /\ Upload(g_data)[15] = 128 /\ Upload(g_data)[16] = 191
    /\ g_host = Some(g_data)

\* element e of a buffer, as its four bytes
ElementAt(buffer, e) == SubSeq(buffer, F32Size * e + 1, F32Size * (e + 1))

\* (c, t, b) lies in the view
InView(view, c, t, b) ==
    /\ view[1][1] <= c /\ c < view[1][2]
    /\ view[2][1] <= t /\ t < view[2][2]
    /\ view[3][1] <= b /\ b < view[3][2]

\* the two views share no element
DisjointViews(v, w) ==
    \E a \in 1..3 : v[a][2] <= w[a][1] \/ w[a][2] <= v[a][1]

\* C15: blit requires equal view shapes and, once executed, the elements of
\* the output tensor inside the output view equal the input view's elements
\* in the same order, every element outside keeps its previous value, and
\* successive blits into disjoint views do not disturb each other.
C15_BlitWritesExactlyTheView ==
    /\ \A k \in 1..Len(g_ops) :
           ViewShape(g_ops[k].input) = ViewShape(g_ops[k].output)
    /\ (/\ g_pc \in {"back", "done"}
        /\ \A j, k \in 1..Len(g_ops) :
               j # k => DisjointViews(g_ops[j].output, g_ops[k].output))
       => \A c \in 0..(g_shape[1] - 1), t \in 0..(g_shape[2] - 1),
             b \in 0..(g_shape[3] - 1) :
            LET e == ElementIndex(g_shape, c, t, b)
                hit == { k \in 1..Len(g_ops) : InView(g_ops[k].output, c, t, b) }
            IN IF hit = {}
               THEN ElementAt(g_output, e) = ElementAt(Upload(g_data), e)
               ELSE \A k \in hit :
                      LET o == g_ops[k]
                      IN ElementAt(g_output, e) =
                           ElementAt(InputBuffer(g_ops, k),
                                     ElementIndex(o.ishape,
                                         o.input[1][1] + c - o.output[1][1],
                                         o.input[2][1] + t - o.output[2][1],
                                         o.input[3][1] + b - o.output[3][1]))

\* =========================================== further claims about Model::run
\* ceil(a / b)
CeilDiv(a, b) == (a + b - 1) \div b

\* run calls that returned Ok or are still awaiting back_async
Succeeding == nok + (IF run_pc = "back" THEN 1 ELSE 0)

\* C22: progress and drain.  Each run call that returns Ok has strictly
\* decreased the number of tokens left; while every run_internal succeeded
\* and every call ran to its end, n calls leave
\* max(0, total - n * token_chunk_size) tokens, so the batches are all empty
\* after exactly ceil(total / token_chunk_size) calls and not before, and the
\* call after that fails with EmptyInput.
C22_ProgressAndDrain ==
    /\ []((Len(prompt) = max_batch /\ Succeeding = ncall) =>
            LET total == SumLen(prompt)
                calls == CeilDiv(total, token_chunk_size)
            IN /\ SumLen(tokens) = Max(0, total - ncall * token_chunk_size)
               /\ ncall <= calls
               /\ SumLen(tokens) = 0 <=> ncall = calls)
    /\ [][/\ nok' > nok =>
               /\ result' = <<"Ok">>
               /\ SumLen(tokens') < SumLen(pre')
          /\ (/\ nrun' > nrun
              /\ Len(prompt) = max_batch /\ SumLen(prompt) > 0
              /\ nok = CeilDiv(SumLen(prompt), token_chunk_size)) =>
                (result' = <<"Err", "EmptyInput">> /\ tokens' = tokens)]_vars

\* five tokens in chunks of two: three calls succeeded, the fourth failed
C22_Witness ==
    /\ SumLen(prompt) = 5
    /\ token_chunk_size = 2
    /\ nok = 3
    /\ ncall = 3
    /\ nrun = 4
    /\ SumLen(tokens) = 0
    /\ result = <<"Err", "EmptyInput">>

\* C25: run removes the consumed prefixes from `tokens` before it calls
\* run_internal and does not restore them: when run_internal fails, run
\* returns that error and `tokens` lacks the min(total, token_chunk_size)
\* tokens of the failed step.
C25_ConsumedOnError ==
    [][result' = <<"Err", "Internal">> =>
          LET total == SumLen(tokens)
              taken == IF total < token_chunk_size THEN total
                       ELSE token_chunk_size
          IN /\ called'
             /\ taken >= 1
             /\ SumLen(tokens') = total - taken
             /\ SumLen(inputs') = taken
             /\ \A b \in 1..max_batch : inputs'[b] \o tokens'[b] = tokens[b]
             /\ nok' = nok]_vars

C25_Witness ==
    /\ result = <<"Err", "Internal">>
    /\ max_batch = 2
    /\ SumLen(pre) > token_chunk_size
    /\ SumLen(tokens) = SumLen(pre) - token_chunk_size
    /\ tokens # pre

\* the batch (1-based) at which the budget of the latest step reached zero
Exhausting ==
    CHOOSE b \in 1..max_batch :
        /\ SumLenBefore(pre, b) >= StepSize
        /\ SumLenBefore(pre, b - 1) < StepSize

\* C26: `last` is Some(b) only if b is the batch at which the token budget
\* reached zero and that batch kept a non-empty tail; one index at most is
\* reported, every batch after b gets an empty input and keeps its tokens,
\* and `last` is None whenever the exhausting batch was consumed completely.
C26_LastIsExhaustingBatch ==
    called =>
        /\ last # None =>
              /\ last[1] + 1 = Exhausting
              /\ tokens[last[1] + 1] # <<>>
              /\ inputs[last[1] + 1] # <<>>
        /\ \A b \in (Exhausting + 1)..max_batch :
              inputs[b] = <<>> /\ tokens[b] = pre[b]
        /\ tokens[Exhausting] = <<>> => last = None

\* batch 0 was consumed exactly; batch 1 still holds tokens and is not reported
C26_Witness ==
    /\ called
    /\ max_batch = 2
    /\ inputs[1] = pre[1] /\ pre[1] # <<>>
    /\ inputs[2] = <<>> /\ tokens[2] # <<>>
    /\ last = None

\* ========================================= further claims about JobRuntime
\* C21: the reply on a submission's one-shot channel is the pair
\* (input', output): output is what the back() of the job of that very
\* submission returned, input' is the submitted input after exactly one
\* step(); the job was loaded with the chunk of the input before the step,
\* and nothing is sent unless back() succeeded.
C21_ReplyIsSteppedInputAndOwnOutput ==
    \A id \in 1..nsub :
        reply[id][1] = "ok" =>
            /\ reply[id][2] = [id |-> id, steps |-> 1]
            /\ Cardinality(JobsFor(id)) = 1
            /\ \A j \in JobsFor(id) :
                  /\ reply[id][3] = <<"out", j>>
                  /\ jobs[j].stage = "backed"
                  /\ jobs[j].chunk = <<id, 0>>
            /\ task[id] = "ok"

\* the second submission was answered by a reused predicted job
C21_Witness ==
    /\ nsub >= 2
    /\ reply[1][1] = "ok"
    /\ reply[2][1] = "ok"
    /\ reply[2][3] # reply[1][3]
    /\ checked = "pass"

\* a build, load or back call has failed
Failure == exit[1] = "Err" \/ \E id \in SubIds : task[id] = "err"

\* jobs that were loaded or submitted
Started(js) == {j \in 1..Len(js) : js[j].stage \in {"loaded", "submitted"}}

\* C24: an error of builder.build (for the current or for the speculative
\* next job), of Job::load or of Job::back makes the worker return for good:
\* a failed build or load returns at once, a failed back at handle.await, and
\* after the first error no submission is received and no job is loaded or
\* submitted any more.
C24_ErrorEndsWorker ==
    /\ [](exit[1] = "Err" => pc = "done")
    /\ [][/\ Failure =>
               /\ recvd' = recvd
               /\ Started(jobs') \subseteq Started(jobs)
               /\ \A j \in Started(jobs') : jobs'[j] = jobs[j]
               /\ pc' # pc => pc' \in {"await", "done"}
               /\ pc = "await" /\ pc' # pc =>
                     pc' = "done" /\ exit'[1] = "Err"
          /\ pc = "done" => pc' = "done" /\ exit' = exit /\ chan' = chan]_vars

\* the build of the prediction failed while the step was in flight; the
\* step's reply still arrived, the queued submission was dropped
C24_Witness ==
    /\ exit = <<"Err", "build">>
    /\ pc = "done"
    /\ ninfo[1] = 2
    /\ recvd = <<1>>
    /\ reply[1][1] = "ok"
    /\ nsub = 2
    /\ reply[2] = <<"closed">>

\* C27: a submission whose info iterator yields nothing is skipped: no job
\* is built, loaded or submitted for it, its reply sender is dropped without
\* a reply, the stored predicted job is left as it is, and the worker goes on
\* to the next receive.
C27_EmptyInfoSkipped ==
    /\ [](\A k \in 1..Len(recvd) :
            ninfo[recvd[k]] = 0 =>
                /\ JobsFor(recvd[k]) = {}
                /\ task[recvd[k]] = "none"
                /\ reply[recvd[k]] = <<"closed">>
                /\ cur # recvd[k])
    /\ [][(recvd' # recvd /\ ninfo[Head(chan)] = 0) =>
             /\ predict' = predict
             /\ jobs' = jobs
             /\ task' = task
             /\ pc' = "recv"
             /\ exit' = exit
             /\ <<cur', curjob', next'>> = <<cur, curjob, next>>
             /\ reply' = [reply EXCEPT ![Head(chan)] = <<"closed">>]]_vars

\* an empty submission was skipped while a predicted job was stored, and the
\* submission after it was served
C27_Witness ==
    /\ Len(recvd) = 3
    /\ ninfo[recvd[2]] = 0
    /\ ninfo[recvd[1]] = 2
    /\ reply[recvd[2]] = <<"closed">>
    /\ reply[recvd[3]][1] = "ok"

\* received submissions with a non-empty info iterator whose reply is not sent
Pending == {id \in SubIds : ServedSub(id) /\ ~Replied(id)}

\* C23: liveness.  Under fair scheduling, and unless a build, load or back
\* call fails, every submission the worker received whose info iterator is
\* non-empty eventually has its reply sent on its one-shot channel: time and
\* again no received submission is left waiting.  And a reply, once sent, is
\* never followed by another one.
C23_ReceivedIsReplied ==
    /\ []<>(Pending = {} \/ Failure)
    /\ [][\A id \in SubIds : Replied(id) => reply'[id] = reply[id]]_vars

\* three submissions were received and answered, none failed
C23_Witness ==
    /\ ~Failure
    /\ Len(recvd) = 3
    /\ \A id \in 1..3 : ServedSub(id) /\ Replied(id)

\* ======================================= further claims about the kernels
\* the names of the pipelines of a list of ops, in order
PipelinesOf(ops) == [i \in 1..Len(ops) |-> ops[i].pipeline]

\* the position of pipeline n in a list of ops
PositionOf(ops, n) == CHOOSE i \in 1..Len(ops) : ops[i].pipeline = n

\* C28: quantize_mat_int8 returns exactly five ops; each of the statistics
\* kernels mx, my, rx, ry appears once and the quantize kernel is last; the
\* order is [my, mx, rx, ry, quantize] when shape[1] > shape[0] and
\* [mx, my, rx, ry, quantize] otherwise, so rx and ry come after mx and my.
C28_QuantizeOrder ==
    (/\ k_call # None
     /\ k_call[1].name = "quantize_mat_int8"
     /\ k_ret[1].result[1] = "Ok") =>
        LET ops == k_ret[1].value
            shape == k_call[1].args[6]
            stats == {"quant_mat_int8_mx", "quant_mat_int8_my",
                      "quant_mat_int8_rx", "quant_mat_int8_ry"}
        IN /\ Len(ops) = 5
           /\ ops[5].pipeline = "quant_mat_int8"
           /\ \A n \in stats :
                 Cardinality({i \in 1..5 : ops[i].pipeline = n}) = 1
           /\ PipelinesOf(ops) =
                 IF shape[2] > shape[1]
                 THEN <<"quant_mat_int8_my", "quant_mat_int8_mx",
                        "quant_mat_int8_rx", "quant_mat_int8_ry",
                        "quant_mat_int8">>
                 ELSE <<"quant_mat_int8_mx", "quant_mat_int8_my",
                        "quant_mat_int8_rx", "quant_mat_int8_ry",
                        "quant_mat_int8">>
           /\ \A late \in {"quant_mat_int8_rx", "quant_mat_int8_ry"} :
                 \A early \in {"quant_mat_int8_mx", "quant_mat_int8_my"} :
                     PositionOf(ops, early) < PositionOf(ops, late)

\* a matrix with more rows than columns: my comes first
C28_Witness ==
    /\ k_call # None
    /\ k_call[1].name = "quantize_mat_int8"
    /\ k_ret[1].result[1] = "Ok"
    /\ k_call[1].args[6] = <<4, 8, 1>>
    /\ k_ret[1].value[1].pipeline = "quant_mat_int8_my"

\* the state view and the output among the arguments of a recurrent kernel
StateView(c) ==
    CASE c.name = "token_shift" -> c.args[3]
      [] c.name = "token_mix" -> c.args[9]
      [] c.name = "channel_mix" -> c.args[6]
OutputOf(c) ==
    CASE c.name = "token_shift" -> c.args[4]
      [] c.name = "token_mix" -> c.args[8]
      [] c.name = "channel_mix" -> c.args[5]
\* the rows a recurrent kernel takes in its state view
StateRows(name) ==
    CASE name = "token_shift" -> {1, 4}
      [] name = "token_mix" -> {4}
      [] name = "channel_mix" -> {1}
\* the arguments other than the state view are as the kernel declares them
OthersAsDeclared(c) ==
    LET a == c.args
        out == OutputOf(c)
    IN CASE c.name = "token_shift" ->
              a[1] = <<out[1], 1, 1>> /\ a[2] = out
         [] c.name = "token_mix" ->
              /\ a[1] = <<1, 1, 1>>
              /\ a[2] = <<out[1], 1, 1>> /\ a[3] = <<out[1], 1, 1>>
              /\ \A i \in 4..7 : a[i] = out
         [] c.name = "channel_mix" ->
              a[1] = <<1, 1, 1>> /\ \A i \in 2..4 : a[i] = out

\* C29: for an output of shape [C,T,B], token_shift takes a state view of
\* shape [C,1,B] or [C,4,B], token_mix only [C,4,B] and channel_mix only
\* [C,1,B]: a call with any other state view returns the shape error, and a
\* call whose other arguments are as declared is rejected for its shapes
\* only if the state view is not one of these.
C29_StateViewRows ==
    (k_call # None /\
     k_call[1].name \in {"token_shift", "token_mix", "channel_mix"}) =>
        LET c == k_call[1]
            st == StateView(c)
            out == OutputOf(c)
            fits == /\ st[1] = out[1]
                    /\ st[2] \in StateRows(c.name)
                    /\ st[3] = out[3]
            shapeErr == /\ k_ret[1].result[1] = "Err"
                        /\ k_ret[1].result[2] = "Shape"
        IN /\ ~fits => shapeErr
           /\ (fits /\ OthersAsDeclared(c)) => ~shapeErr

\* token_mix passed its seven other checks and was rejected for the state
\* view alone: four rows and the output's channels, but one batch where the
\* output has two
C29_Witness ==
    /\ k_call # None
    /\ k_call[1].name = "token_mix"
    /\ OthersAsDeclared(k_call[1])
    /\ k_call[1].args[8] = <<4, 4, 2>>
    /\ k_call[1].args[9] = <<4, 4, 1>>
    /\ k_ret[1].result[1] = "Err"
    /\ k_ret[1].result[2] = "Shape"
    /\ Len(k_ret[1].trace) = 7

\* the kernels whose first dispatch extent counts blocks of channels
ChannelBlocked ==
    {"add", "token_shift", "token_mix", "squared_relu", "channel_mix", "blit",
     "quantize_vec_fp16"}

\* the output tensor among the arguments of a call
OutputArg(c) ==
    CASE c.name = "token_mix" -> c.args[8]
      [] c.name = "channel_mix" -> c.args[5]
      [] OTHER -> c.args[Len(c.args)]

\* C30: the dispatch grid of a kernel covers its whole output, for every
\* shape the constructor accepts: 4 * dispatch[0] >= R for matmul and
\* matmul_int8, 4 * 128 * dispatch[0] >= C for the channel-blocked kernels,
\* and dispatch[1], dispatch[2] are the output's T and B (1 and B for
\* token_mix).
C30_DispatchCoversOutput ==
    (/\ k_call # None
     /\ k_ret[1].result[1] = "Ok"
     /\ k_call[1].name \in ChannelBlocked \cup {"matmul", "matmul_int8"}) =>
        LET c == k_call[1]
            out == OutputArg(c)
            d == k_ret[1].value[1].dispatch
        IN /\ c.name \in {"matmul", "matmul_int8"} =>
                 /\ d[1] = out[1] \div 4
                 /\ 4 * d[1] >= out[1]
           /\ c.name \in ChannelBlocked =>
                 /\ d[1] = CeilDiv(out[1] \div 4, 128)
                 /\ 4 * 128 * d[1] >= out[1]
           /\ d[2] = IF c.name = "token_mix" THEN 1 ELSE out[2]
           /\ d[3] = out[3]

====
